---- MODULE Spec2Model ----
(***************************************************************************)
(* Model of the jobcontrol orchestration core: dependency resolution       *)
(* (jobcontrol/utils/depgraph.py), build creation and execution            *)
(* (jobcontrol/core.py), argument preparation (jobcontrol/job_conf.py),    *)
(* the build table of the storage (jobcontrol/ext/postgresql.py,           *)
(* jobcontrol/interfaces.py) and the per-thread execution context stack    *)
(* (jobcontrol/globals.py).                                                *)
(***************************************************************************)
EXTENDS Integers, Sequences, FiniteSets, TLC

(***************************************************************************)
(* Bounds of the model.                                                    *)
(***************************************************************************)
MaxBuilds == 3      \* build records the storage may hold
NumVertices == 3    \* vertices of the graphs given to resolve_deps
MaxEdges == 3       \* edges of the graphs given to resolve_deps
ConcBuilds == 2     \* build records made by concurrent build_job calls
MaxLogs == 1        \* log records the storage may hold
ConfBuilds == 2     \* build records made across an edit of the configuration
MaxNesting == 2     \* builds a thread runs inside one another
MaxRows == 3        \* rows the build_progress table may hold
ProgBuilds == 2     \* build records made by the reporting job code

\* the threads of the process, and the ones that call into the JobControl
\* object in Spec
Threads == {"t1", "t2"}

Callers == {"t1"}

Vertices == 1..NumVertices
BuildIds == 1..MaxBuilds

(***************************************************************************)
(* Generic helpers on sequences.                                           *)
(***************************************************************************)
InSeq(x, s) == \E i \in 1..Len(s) : s[i] = x

\* the smaller of two numbers: what distances would hold if the update of
\* _dfs_explore kept the shortest trail instead of the longest
Min2(a, b) == IF a <= b THEN a ELSE b

\* the second of two numbers: what distances would hold if the update of
\* _dfs_explore kept the distance of the first trail that reached a vertex
KeepFirst(a, b) == b

Max2(a, b) == IF a >= b THEN a ELSE b

RECURSIVE ReverseSeq(_)
ReverseSeq(s) ==
    IF s = <<>> THEN <<>> ELSE Append(ReverseSeq(Tail(s)), Head(s))

(***************************************************************************)
(* jobcontrol/utils/depgraph.py                                            *)
(***************************************************************************)

\* lexicographic order on the (distance, vertex) pairs that items.sort() uses
PairLess(p, q) == p[1] < q[1] \/ (p[1] = q[1] /\ p[2] < q[2])

\* items.sort(): the pairs of a set in ascending order
RECURSIVE SortPairs(_)
SortPairs(S) ==
    IF S = {} THEN <<>>
    ELSE LET m == CHOOSE p \in S : \A q \in S \ {p} : PairLess(p, q)
         IN  <<m>> \o SortPairs(S \ {m})

\* _dfs_explore(vertex, trail), from the i-th entry of graph[vertex] on.
\* st.raised is set once DepLoop was raised, which ends the whole traversal;
\* st.distances is the distances dict.
RECURSIVE DfsExplore(_, _, _, _, _)
DfsExplore(g, st, vertex, trail, i) ==
    IF st.raised \/ i > Len(g[vertex]) THEN st
    ELSE LET dest == g[vertex][i] IN
         IF InSeq(dest, trail)
         THEN [st EXCEPT !.raised = TRUE]
         ELSE LET dist == IF dest \notin DOMAIN st.distances
                          THEN (dest :> Len(trail)) @@ st.distances
                          ELSE [st.distances EXCEPT
                                   ![dest] = Max2(Len(trail), @)]
                  below == DfsExplore(g, [st EXCEPT !.distances = dist],
                                      dest, Append(trail, dest), 1)
              IN  DfsExplore(g, below, vertex, trail, i + 1)

\* a resolve_deps that swallows DepLoop and returns what was explored
resolve_deps_swallowing_loop(g, s, with_weights) ==
    LET st0 == [raised |-> FALSE, distances |-> (s :> 0)]
        st == DfsExplore(g, st0, s, <<s>>, 1)
        items == ReverseSeq(SortPairs(
                     {<<st.distances[x], x>> : x \in DOMAIN st.distances}))
    IN  IF with_weights THEN [raised |-> "none", value |-> items]
        ELSE [raised |-> "none",
              value |-> [k \in 1..Len(items) |-> items[k][2]]]

\* resolve_deps(graph, start, with_weights)
resolve_deps(g, s, with_weights) ==
    LET st0 == [raised |-> FALSE, distances |-> (s :> 0)]
        st == DfsExplore(g, st0, s, <<s>>, 1)
        items == ReverseSeq(SortPairs(
                     {<<st.distances[x], x>> : x \in DOMAIN st.distances}))
    IN  IF st.raised THEN [raised |-> "DepLoop", value |-> <<>>]
        ELSE IF with_weights THEN [raised |-> "none", value |-> items]
        ELSE [raised |-> "none",
              value |-> [k \in 1..Len(items) |-> items[k][2]]]

(***************************************************************************)
(* Python values.  A call either returns a value or raises: results are    *)
(* records [raised |-> "none" or the exception, value |-> the value].      *)
(***************************************************************************)
None == [t |-> "none"]

Returned(v) == [raised |-> "none", value |-> v]

Raised(e) == [raised |-> e, value |-> None]

\* argument values as prepare_args tells them apart by type
Scalar(v) == [t |-> "scalar", v |-> v]

Retval(j) == [t |-> "retval", job_id |-> j]

List(items) == [t |-> "list", items |-> items]

Tuple(items) == [t |-> "tuple", items |-> items]

\* a dict, as the sequence of its (key, value) items
Dict(items) == [t |-> "dict", items |-> items]

\* a value of a type prepare_args does not know (a set, an object, ...);
\* the one used here is one pickle cannot serialize
\* (jobcontrol.utils.testing.NonSerializableObject)
OtherObject == [t |-> "other"]

\* an exception object of the given class
Exc(type) == [t |-> "exc", type |-> type]

\* objects a job function may return
RetVals == {Scalar("v1"), Scalar("v2"), OtherObject}

\* classes of the exceptions a job function may raise, other than SkipBuild
JobErrors == {"RuntimeError", "NonSerializableException"}

\* whether pickle.dumps accepts the object
Serializable(obj) == obj \notin {OtherObject, Exc("NonSerializableException")}

(***************************************************************************)
(* The job configuration (the 'jobs' list of a JobControlConfigMgr).       *)
(* B takes the return value of its dependency A; C refers to the return    *)
(* value of A, which is not one of its declared dependencies.              *)
(***************************************************************************)
JobsConf ==
    << [id |-> "A", function |-> "mod:job_a", args |-> Tuple(<<>>),
        kwargs |-> Dict(<<>>), dependencies |-> <<>>],
       [id |-> "B", function |-> "mod:job_b", args |-> Tuple(<<>>),
        kwargs |-> Dict(<< <<Scalar("retval"), Retval("A")>> >>),
        dependencies |-> <<"A">>],
       [id |-> "C", function |-> "mod:job_c",
        args |-> Tuple(<<Scalar("x"), Retval("A")>>),
        kwargs |-> Dict(<<>>), dependencies |-> <<"B">>] >>

\* the configuration after an edit of the file: A calls another function
\* with other arguments, B no longer declares its dependency
JobsConfEdited ==
    << [id |-> "A", function |-> "mod:job_a_v2",
        args |-> Tuple(<<Scalar("edited")>>),
        kwargs |-> Dict(<<>>), dependencies |-> <<>>],
       [id |-> "B", function |-> "mod:job_b", args |-> Tuple(<<>>),
        kwargs |-> Dict(<< <<Scalar("retval"), Retval("A")>> >>),
        dependencies |-> <<>>],
       JobsConf[3] >>

\* the configurations a JobControl object is made with
ConfigInputs == {JobsConf, JobsConfEdited}

\* job ids callers pass: the configured ones and one that does not exist
JobIdInputs == {"A", "B", "C", "nojob"}

\* the 'jobs' list of the configuration the JobControl object works on
VARIABLE config

\* a get_job that gives the first configured job for an unknown id
config_get_job_or_first(job_id) ==
    IF \E i \in 1..Len(config) : config[i].id = job_id
    THEN Returned(config[CHOOSE i \in 1..Len(config) :
                      /\ config[i].id = job_id
                      /\ \A k \in 1..(i - 1) : config[k].id # job_id])
    ELSE Returned(config[1])

\* JobControlConfigMgr.get_job
config_get_job(job_id) ==
    IF \E i \in 1..Len(config) : config[i].id = job_id
    THEN Returned(config[CHOOSE i \in 1..Len(config) :
                      /\ config[i].id = job_id
                      /\ \A k \in 1..(i - 1) : config[k].id # job_id])
    ELSE Raised("NotFound")

\* JobControlConfigMgr.get_job_deps
config_get_job_deps(job_id) ==
    LET job == config_get_job(job_id)
    IN  IF job.raised # "none" THEN job
        ELSE Returned(job.value.dependencies)

\* JobControl.get_job: the JobInfo of a job (its id and configuration)
get_job(job_id) == config_get_job(job_id)

(***************************************************************************)
(* The build table of the storage.  bs is the table: a function from the   *)
(* ids of the stored builds to their rows.                                 *)
(***************************************************************************)

\* StorageBase.pack (pickle.dumps)
pack(obj) ==
    IF Serializable(obj) THEN Returned([t |-> "pickle", obj |-> obj])
    ELSE Raised("PicklingError")

\* StorageBase.unpack (pickle.loads)
unpack(packed) == packed.obj

\* PostgreSQLStorage._build_pack on the retval and exception of a row update
build_pack(retval, exception) ==
    LET r == IF retval # None THEN pack(retval) ELSE Returned(None)
        e == IF exception # None THEN pack(exception) ELSE Returned(None)
    IN  IF r.raised # "none" THEN r
        ELSE IF e.raised # "none" THEN e
        ELSE Returned([retval |-> r.value, exception |-> e.value])

\* an integer, as report_build_progress tells it from other values
IntObj(n) == [t |-> "int", v |-> n]

\* the time the clock of the storage's host shows
VARIABLE clock

\* datetime.now()
datetime_now == IntObj(clock)

\* PostgreSQLStorage._build_unpack
build_unpack(row) ==
    [row EXCEPT !.retval = IF @ # None THEN unpack(@) ELSE None,
                !.exception = IF @ # None THEN unpack(@) ELSE None]

\* the row a build is created with: the columns' defaults of the build table
\* and the job and build configuration given by JobControl.create_build
storage_create_build(bs, build_id, job_id, job_config, build_config) ==
    (build_id :> [id |-> build_id, job_id |-> job_id,
                  start_time |-> None, end_time |-> None,
                  started |-> FALSE, finished |-> FALSE,
                  success |-> FALSE, skipped |-> FALSE,
                  job_config |-> job_config, build_config |-> build_config,
                  retval |-> None, exception |-> None,
                  exception_tb |-> None]) @@ bs

\* PostgreSQLStorage.get_build
storage_get_build(bs, build_id) ==
    IF build_id \notin DOMAIN bs THEN Raised("NotFound")
    ELSE Returned(build_unpack(bs[build_id]))

\* PostgreSQLStorage.delete_build: a DELETE of the row with that id, if any
storage_delete_build(bs, build_id) ==
    [b \in DOMAIN bs \ {build_id} |-> bs[b]]

\* PostgreSQLStorage.start_build: an UPDATE of the row with that id, if any
storage_start_build(bs, build_id) ==
    [b \in DOMAIN bs |->
        IF b = build_id
        THEN [bs[b] EXCEPT !.start_time = datetime_now, !.started = TRUE]
        ELSE bs[b]]

\* a finish_build that leaves an already finished build as it is
storage_finish_build_once(bs, build_id, success, skipped, retval, exception, exc_info) ==
    LET exc_trace == IF exc_info # None
                     THEN [t |-> "traceback", of |-> exc_info.type]
                     ELSE None
        packed == build_pack(retval, exception)
    IN  IF packed.raised # "none" THEN packed
        ELSE Returned(
            [b \in DOMAIN bs |->
                IF b = build_id /\ ~bs[b].finished
                THEN [bs[b] EXCEPT !.end_time = datetime_now,
                                   !.finished = TRUE,
                                   !.success = success,
                                   !.skipped = skipped,
                                   !.retval = packed.value.retval,
                                   !.exception = packed.value.exception,
                                   !.exception_tb = exc_trace]
                ELSE bs[b]])

\* a finish_build whose UPDATE has no WHERE clause
storage_finish_build_all(bs, build_id, success, skipped, retval, exception, exc_info) ==
    LET exc_trace == IF exc_info # None
                     THEN [t |-> "traceback", of |-> exc_info.type]
                     ELSE None
        packed == build_pack(retval, exception)
    IN  IF packed.raised # "none" THEN packed
        ELSE Returned(
            [b \in DOMAIN bs |->
                [bs[b] EXCEPT !.end_time = datetime_now,
                              !.finished = TRUE,
                              !.success = success,
                              !.skipped = skipped,
                              !.retval = packed.value.retval,
                              !.exception = packed.value.exception,
                              !.exception_tb = exc_trace]])

\* PostgreSQLStorage.finish_build: the table after the call, or the error
\* raised by the serialization, which leaves the table as it was
storage_finish_build(bs, build_id, success, skipped, retval, exception, exc_info) ==
    LET exc_trace == IF exc_info # None
                     THEN [t |-> "traceback", of |-> exc_info.type]
                     ELSE None
        packed == build_pack(retval, exception)
    IN  IF packed.raised # "none" THEN packed
        ELSE Returned(
            [b \in DOMAIN bs |->
                IF b = build_id
                THEN [bs[b] EXCEPT !.end_time = datetime_now,
                                   !.finished = TRUE,
                                   !.success = success,
                                   !.skipped = skipped,
                                   !.retval = packed.value.retval,
                                   !.exception = packed.value.exception,
                                   !.exception_tb = exc_trace]
                ELSE bs[b]])

\* the ids of a set in ascending order (ORDER BY id ASC)
RECURSIVE SortIds(_)
SortIds(S) ==
    IF S = {} THEN <<>>
    ELSE LET m == CHOOSE x \in S : \A y \in S : x <= y
         IN  <<m>> \o SortIds(S \ {m})

\* a filter of get_job_builds: "any" stands for None (no filter)
FilterOk(flag, filter) == filter = "any" \/ flag = (filter = "true")

\* get_job_builds with the filter on skipped left out of the query
get_job_builds_any_skipped(bs, job_id, started, finished, success, skipped, order, limit) ==
    LET ids == {b \in DOMAIN bs :
                   /\ bs[b].job_id = job_id
                   /\ FilterOk(bs[b].started, started)
                   /\ FilterOk(bs[b].finished, finished)
                   /\ FilterOk(bs[b].success, success)}
        asc == SortIds(ids)
        ordered == IF order = "asc" THEN asc ELSE ReverseSeq(asc)
        cut == IF limit = -1 \/ Len(ordered) <= limit THEN ordered
               ELSE SubSeq(ordered, 1, limit)
    IN  [k \in 1..Len(cut) |-> build_unpack(bs[cut[k]])]

\* get_job_builds: the builds of a job that pass the filters, by id in the
\* given order, cut to the first limit ones (limit -1 stands for None)
storage_get_job_builds(bs, job_id, started, finished, success, skipped, order, limit) ==
    LET ids == {b \in DOMAIN bs :
                   /\ bs[b].job_id = job_id
                   /\ FilterOk(bs[b].started, started)
                   /\ FilterOk(bs[b].finished, finished)
                   /\ FilterOk(bs[b].success, success)
                   /\ FilterOk(bs[b].skipped, skipped)}
        asc == SortIds(ids)
        ordered == IF order = "asc" THEN asc ELSE ReverseSeq(asc)
        cut == IF limit = -1 \/ Len(ordered) <= limit THEN ordered
               ELSE SubSeq(ordered, 1, limit)
    IN  [k \in 1..Len(cut) |-> build_unpack(bs[cut[k]])]

\* variants of get_latest_successful_build with one argument of its
\* get_job_builds call changed: no filter on success, no filter on skipped,
\* ascending order
latest_build_any_success(bs, job_id) ==
    LET found == storage_get_job_builds(bs, job_id, "true", "true", "any",
                                        "false", "desc", 1)
    IN  IF Len(found) < 1 THEN None ELSE found[1]

latest_build_any_skipped(bs, job_id) ==
    LET found == storage_get_job_builds(bs, job_id, "true", "true", "true",
                                        "any", "desc", 1)
    IN  IF Len(found) < 1 THEN None ELSE found[1]

oldest_successful_build(bs, job_id) ==
    LET found == storage_get_job_builds(bs, job_id, "true", "true", "true",
                                        "false", "asc", 1)
    IN  IF Len(found) < 1 THEN None ELSE found[1]

\* StorageBase.get_latest_successful_build: the build, or None
get_latest_successful_build(bs, job_id) ==
    LET found == storage_get_job_builds(bs, job_id, "true", "true", "true",
                                        "false", "desc", 1)
    IN  IF Len(found) < 1 THEN None ELSE found[1]

\* PostgreSQLStorage.report_build_progress on the build_progress table pt (a
\* sequence of rows): the INSERT is refused by the foreign key when the
\* build does not exist and by UNIQUE (build_id, group_name) when a row
\* with an equal pair exists (a NULL group_name is equal to none), and the
\* UPDATE made then changes the rows with that pair
report_build_progress(pt, bs, build_id, current, total, group_name, status_line) ==
    LET record == [build_id |-> build_id, current |-> current.v,
                   total |-> total.v, group_name |-> group_name,
                   status_line |-> status_line]
        same(row) == /\ row.build_id = build_id
                     /\ group_name # None
                     /\ row.group_name = group_name
    IN  IF current.t # "int" \/ total.t # "int" THEN Raised("TypeError")
        ELSE IF build_id \in DOMAIN bs
                /\ ~\E k \in 1..Len(pt) : same(pt[k])
        THEN Returned(Append(pt, record))
        ELSE Returned([k \in 1..Len(pt) |->
                          IF same(pt[k]) THEN record ELSE pt[k]])

\* PostgreSQLStorage.log_message on the log table lt (a sequence of rows)
storage_log_message(lt, build_id, record) ==
    LET packed == pack(record)
    IN  IF packed.raised # "none" THEN packed
        ELSE Returned(Append(lt, [build_id |-> build_id,
                                  record |-> packed.value]))

(***************************************************************************)
(* jobcontrol/utils/__init__.py: ProgressReport.  A table is a sequence of *)
(* entries [name, current, total, status_line]; a name is None or a Tuple  *)
(* of segments.  A report is a record [name, current, total, status_line,  *)
(* children]: current and total are the _current and _total attributes.    *)
(***************************************************************************)

\* "not name": the name is None or the empty tuple
name_is_empty(name) == IF name = None THEN TRUE ELSE name.items = <<>>

\* the loop of from_table over the first n entries: root, the last entry
\* with an empty name (None when there is none)
RECURSIVE table_root(_, _)
table_root(table, n) ==
    IF n = 0 THEN None
    ELSE IF name_is_empty(table[n].name) THEN table[n]
    ELSE table_root(table, n - 1)

\* prefixes kept in the order of the last appearance of each segment
RECURSIVE table_prefixes_last(_, _)
table_prefixes_last(table, n) ==
    IF n = 0 THEN <<>>
    ELSE LET before == table_prefixes_last(table, n - 1)
         IN  IF name_is_empty(table[n].name) THEN before
             ELSE Append(SelectSeq(before,
                             LAMBDA x : x # table[n].name.items[1]),
                         table[n].name.items[1])

\* the loop of from_table over the first n entries: prefixes, the first
\* segments in the order they first appear
RECURSIVE table_prefixes(_, _)
table_prefixes(table, n) ==
    IF n = 0 THEN <<>>
    ELSE LET before == table_prefixes(table, n - 1)
         IN  IF name_is_empty(table[n].name) THEN before
             ELSE IF InSeq(table[n].name.items[1], before) THEN before
             ELSE Append(before, table[n].name.items[1])

\* the loop of from_table over the first n entries: sub_tables[prefix], the
\* entries of that prefix with the prefix stripped from their names
RECURSIVE sub_table(_, _, _)
sub_table(table, n, prefix) ==
    IF n = 0 THEN <<>>
    ELSE LET before == sub_table(table, n - 1, prefix)
             name == table[n].name
         IN  IF name_is_empty(name) THEN before
             ELSE IF name.items[1] # prefix THEN before
             ELSE Append(before,
                         [table[n] EXCEPT !.name = Tuple(Tail(name.items))])

\* ProgressReport.from_table(table, base_name)
RECURSIVE from_table(_, _)
from_table(table, base_name) ==
    LET root == table_root(table, Len(table))
        prefixes == table_prefixes(table, Len(table))
        children == [k \in 1..Len(prefixes) |->
                        from_table(sub_table(table, Len(table), prefixes[k]),
                                   Scalar(prefixes[k]))]
    IN  IF root = None
        THEN [name |-> base_name, current |-> None, total |-> None,
              status_line |-> None, children |-> children]
        ELSE [name |-> base_name, current |-> root.current,
              total |-> root.total, status_line |-> root.status_line,
              children |-> children]

\* sum() of a sequence of numbers
RECURSIVE sum(_)
sum(xs) == IF xs = <<>> THEN 0 ELSE Head(xs) + sum(Tail(xs))

\* a current property that takes a reported 0 for no report ("if
\* self._current:")
RECURSIVE report_current_truthy(_)
report_current_truthy(self) ==
    IF self.current # None /\ self.current.v # 0 THEN self.current.v
    ELSE sum([k \in 1..Len(self.children) |->
                 report_current_truthy(self.children[k])])

\* ProgressReport.current
RECURSIVE report_current(_)
report_current(self) ==
    IF self.current # None THEN self.current.v
    ELSE sum([k \in 1..Len(self.children) |->
                 report_current(self.children[k])])

\* ProgressReport.total
RECURSIVE report_total(_)
report_total(self) ==
    IF self.total # None THEN self.total.v
    ELSE sum([k \in 1..Len(self.children) |->
                 report_total(self.children[k])])

(***************************************************************************)
(* jobcontrol/job_conf.py: prepare_args.  top is the execution context     *)
(* the calling thread sees (None outside of a job execution).              *)
(***************************************************************************)

\* dict(...) of a sequence of items: a later item replaces an earlier one
\* with an equal key
RECURSIVE dict_of(_)
dict_of(items) ==
    IF items = <<>> THEN <<>>
    ELSE LET rest == dict_of(Tail(items))
         IN  IF \E i \in 1..Len(rest) : rest[i][1] = Head(items)[1]
             THEN rest
             ELSE <<Head(items)>> \o rest

RECURSIVE prepare_args(_, _, _, _)
RECURSIVE prepare_each(_, _, _, _)
RECURSIVE prepare_items(_, _, _, _)

\* a Retval branch without the check against the declared dependencies
prepare_retval_unchecked(args, build, top, bs) ==
    LET dep_job == get_job(args.job_id)
    IN  IF top = None THEN Raised("RuntimeError")
        ELSE IF dep_job.raised # "none" THEN dep_job
        ELSE LET dep_build == get_latest_successful_build(
                                  bs, dep_job.value.id)
             IN  IF dep_build = None
                 THEN Raised("ValueError(no successful builds)")
                 ELSE Returned(dep_build.retval)

\* the Retval branch of prepare_args
prepare_retval(args, build, top, bs) ==
    LET current_job == IF top = None THEN Raised("RuntimeError")
                       ELSE get_job(top.job_id)
    IN  IF current_job.raised # "none" THEN current_job
        ELSE IF ~InSeq(args.job_id, current_job.value.dependencies)
        THEN Raised("ValueError(not a dependency)")
        ELSE LET dep_job == get_job(args.job_id)
             IN  IF dep_job.raised # "none" THEN dep_job
                 ELSE LET dep_build == get_latest_successful_build(
                                           bs, dep_job.value.id)
                      IN  IF dep_build = None
                          THEN Raised("ValueError(no successful builds)")
                          ELSE Returned(dep_build.retval)

\* [prepare_args(x, build) for x in args]: the first error ends it
prepare_each(xs, build, top, bs) ==
    IF xs = <<>> THEN Returned(<<>>)
    ELSE LET h == prepare_args(Head(xs), build, top, bs)
         IN  IF h.raised # "none" THEN h
             ELSE LET r == prepare_each(Tail(xs), build, top, bs)
                  IN  IF r.raised # "none" THEN r
                      ELSE Returned(<<h.value>> \o r.value)

\* (prepare_args(k, build), prepare_args(v, build)) for k, v in items
prepare_items(items, build, top, bs) ==
    IF items = <<>> THEN Returned(<<>>)
    ELSE LET k == prepare_args(Head(items)[1], build, top, bs)
             v == prepare_args(Head(items)[2], build, top, bs)
         IN  IF k.raised # "none" THEN k
             ELSE IF v.raised # "none" THEN v
             ELSE LET r == prepare_items(Tail(items), build, top, bs)
                  IN  IF r.raised # "none" THEN r
                      ELSE Returned(<< <<k.value, v.value>> >> \o r.value)

prepare_args(args, build, top, bs) ==
    CASE args.t = "retval" -> prepare_retval(args, build, top, bs)
      [] args.t = "list" ->
            LET r == prepare_each(args.items, build, top, bs)
            IN  IF r.raised # "none" THEN r ELSE Returned(List(r.value))
      [] args.t = "tuple" ->
            LET r == prepare_each(args.items, build, top, bs)
            IN  IF r.raised # "none" THEN r ELSE Returned(Tuple(r.value))
      [] args.t = "dict" ->
            LET r == prepare_items(args.items, build, top, bs)
            IN  IF r.raised # "none" THEN r
                ELSE Returned(Dict(dict_of(r.value)))
      [] args.t = "scalar" -> Returned(args)
      [] OTHER -> Raised("TypeError(unsupported type)")

(***************************************************************************)
(* The stack of execution contexts of one thread (the LocalStack behind    *)
(* jobcontrol.globals._execution_ctx_stack).                               *)
(***************************************************************************)
\* LocalStack.push
local_push(stk, obj) == Append(stk, obj)

\* LocalStack.pop: the stack without its top, and the popped object
local_pop(stk) ==
    IF stk = <<>> THEN [stack |-> stk, rv |-> None]
    ELSE [stack |-> SubSeq(stk, 1, Len(stk) - 1), rv |-> stk[Len(stk)]]

\* LocalStack.top
local_top(stk) == IF stk = <<>> THEN None ELSE stk[Len(stk)]

\* a _get_current_ctx that gives the context pushed first
get_current_ctx_outermost(stk) ==
    IF local_top(stk) = None THEN Raised("RuntimeError")
    ELSE Returned(stk[1])

\* globals._get_current_ctx: what execution_context stands for
get_current_ctx(stk) ==
    IF local_top(stk) = None THEN Raised("RuntimeError")
    ELSE Returned(local_top(stk))

\* globals._get_ctx_object(name)
get_ctx_object(stk, name) ==
    IF local_top(stk) = None THEN Raised("RuntimeError")
    ELSE Returned(local_top(stk)[name])

\* a push that puts the context under the ones already on the stack
ctx_push_bottom(stk, self) == <<self>> \o stk

\* JobExecutionContext.push
ctx_push(stk, self) == local_push(stk, self)

\* a pop that leaves the stack as it is
ctx_pop_nothing(stk, self) == [stack |-> stk, raised |-> "none"]

\* a pop that compares before it removes: a failed pop removes nothing
ctx_pop_checking_first(stk, self) ==
    IF local_top(stk) = self THEN [stack |-> local_pop(stk).stack, raised |-> "none"]
    ELSE [stack |-> stk, raised |-> "AssertionError"]

\* JobExecutionContext.pop: the stack after the pop, and the AssertionError
\* raised when the popped context is another one
ctx_pop(stk, self) ==
    LET popped == local_pop(stk)
    IN  [stack |-> popped.stack,
         raised |-> IF popped.rv = self THEN "none" ELSE "AssertionError"]

(***************************************************************************)
(* jobcontrol/core.py: JobControl                                          *)
(***************************************************************************)

\* JobControl.run_build: what it gives back when _run_build has ended, the
\* function having no return statement
run_build_return(build_id) == None

\* the Python booleans, as returned objects
Bool(b) == [t |-> "bool", v |-> b]

\* JobInfo.has_builds
has_builds(bs, job_id) ==
    Len(storage_get_job_builds(bs, job_id, "true", "true", "any", "any",
                               "desc", 1)) >= 1

\* JobInfo.has_successful_builds
has_successful_builds(bs, job_id) ==
    Len(storage_get_job_builds(bs, job_id, "true", "true", "true", "false",
                               "desc", 1)) >= 1

\* the loop of is_outdated with a comparison that takes an equal end time
\* for a newer one
RECURSIVE outdated_among_or_equal(_, _, _, _)
outdated_among_or_equal(bs, latest_build, deps, i) ==
    IF i > Len(deps) THEN Bool(FALSE)
    ELSE LET build == get_latest_successful_build(bs, deps[i])
         IN  IF build = None THEN None
             ELSE IF build.end_time.v >= latest_build.end_time.v
             THEN Bool(TRUE)
             ELSE outdated_among_or_equal(bs, latest_build, deps, i + 1)

\* the loop of is_outdated over self.get_deps(), from the i-th dependency on
RECURSIVE outdated_among(_, _, _, _)
outdated_among(bs, latest_build, deps, i) ==
    IF i > Len(deps) THEN Bool(FALSE)
    ELSE LET build == get_latest_successful_build(bs, deps[i])
         IN  IF build = None THEN None
             ELSE IF build.end_time.v > latest_build.end_time.v
             THEN Bool(TRUE)
             ELSE outdated_among(bs, latest_build, deps, i + 1)

\* JobInfo.is_outdated: True, False or None
is_outdated(bs, job_id) ==
    LET latest_build == get_latest_successful_build(bs, job_id)
    IN  IF latest_build = None THEN None
        ELSE outdated_among(bs, latest_build,
                            config_get_job_deps(job_id).value, 1)

\* the status views_html.job_depgraph derives for the node of a job, named
\* after what its fill colour stands for: #f0ad4e outdated, #5cb85c
\* success, #d9534f failed, #777777 not_built
job_status(bs, job_id) ==
    IF has_successful_builds(bs, job_id)
    THEN IF is_outdated(bs, job_id) = Bool(TRUE) THEN "outdated"
         ELSE "success"
    ELSE IF has_builds(bs, job_id) THEN "failed"
    ELSE "not_built"

\* JobControl.get_build: BuildInfo(self, build_id) after its refresh()
get_build(bs, build_id) == storage_get_build(bs, build_id)

\* the loop of create_build over job.get_deps(), from the i-th dependency
\* on: the dependency_builds map, or the error that aborts the creation
RECURSIVE pin_dependencies(_, _, _, _)
pin_dependencies(bs, deps, i, pinned) ==
    IF i > Len(deps) THEN Returned(pinned)
    ELSE LET dep == config_get_job(deps[i])
         IN  IF dep.raised # "none" THEN dep
             ELSE LET dep_build == get_latest_successful_build(
                                       bs, dep.value.id)
                  IN  IF dep_build = None
                      THEN Raised("MissingDependencies")
                      ELSE pin_dependencies(bs, deps, i + 1,
                               (dep.value.id :> dep_build.id) @@ pinned)

\* JobControl.create_build, given the id the storage assigns next: the
\* error raised or the id of the created build, and the build table after
create_build(bs, next_id, job_id) ==
    LET job == get_job(job_id)
        pins == pin_dependencies(bs, job.value.dependencies, 1, <<>>)
        build_config == [build_deps |-> FALSE, build_revdeps |-> FALSE,
                         dependency_builds |-> pins.value]
    IN  IF job.raised # "none"
        THEN [raised |-> job.raised, build_id |-> 0, builds |-> bs]
        ELSE IF pins.raised # "none"
        THEN [raised |-> pins.raised, build_id |-> 0, builds |-> bs]
        ELSE [raised |-> "none", build_id |-> next_id,
              builds |-> storage_create_build(bs, next_id, job_id,
                                              job.value, build_config)]

\* JobControlConfigMgr.get_job_deps on a configuration given as the function
\* from the ids of its jobs to their dependency lists
get_job_deps(conf, job_id) ==
    IF job_id \in DOMAIN conf THEN Returned(conf[job_id])
    ELSE Raised("NotFound")

\* a get_job_revdeps that finds no job
get_job_revdeps_none(conf, job_id) == <<>>

\* JobControlConfigMgr.get_job_revdeps: the jobs, in the order of the
\* configuration, that have job_id among their dependencies
get_job_revdeps(conf, job_id) ==
    SortIds({j \in DOMAIN conf : InSeq(job_id, conf[j])})

\* a set of processed jobs that forgets what an inner call has added
processed_after_forgetting(before, after) ==
    [after EXCEPT !.processed = before.processed]

\* processed is one set, shared by all the calls of _explore_deps: what a
\* call has added is there when it has returned
processed_after(before, after) == after

\* JobControl._create_job_depgraph.  st holds processed, DEPGRAPH, the error
\* raised if any, and reads: how many times get_job_deps was called for each
\* job id.
RECURSIVE explore_deps(_, _, _, _)
RECURSIVE explore_each(_, _, _, _, _)
RECURSIVE explore_revdeps(_, _, _, _, _, _)

\* for dep in deps: _explore_deps(dep), from the i-th entry of the list
\* DEPGRAPH[jid] on
explore_each(conf, complete, st, jid, i) ==
    IF st.raised # "none" THEN st
    ELSE IF i > Len(st.DEPGRAPH[jid]) THEN st
    ELSE explore_each(conf, complete,
             processed_after(st, explore_deps(conf, complete, st,
                                              st.DEPGRAPH[jid][i])),
             jid, i + 1)

\* for rdid in revdeps: ..., from the i-th reverse dependency on
explore_revdeps(conf, complete, st, jid, revdeps, i) ==
    IF st.raised # "none" THEN st
    ELSE IF i > Len(revdeps) THEN st
    ELSE LET rdid == revdeps[i]
             g1 == IF rdid \in DOMAIN st.DEPGRAPH THEN st.DEPGRAPH
                   ELSE (rdid :> <<>>) @@ st.DEPGRAPH
             g2 == IF InSeq(jid, g1[rdid]) THEN g1
                   ELSE [g1 EXCEPT ![rdid] = Append(@, jid)]
         IN  explore_revdeps(conf, complete,
                 processed_after(st, explore_deps(conf, complete,
                                     [st EXCEPT !.DEPGRAPH = g2], rdid)),
                 jid, revdeps, i + 1)

\* _explore_deps(jid)
explore_deps(conf, complete, st, jid) ==
    IF st.raised # "none" THEN st
    ELSE IF jid \in st.processed THEN st
    ELSE LET deps == get_job_deps(conf, jid)
             st1 == [st EXCEPT !.processed = @ \cup {jid},
                               !.reads[jid] = @ + 1]
         IN  IF deps.raised # "none"
             THEN [st1 EXCEPT !.raised = deps.raised]
             ELSE LET st2 == [st1 EXCEPT
                                !.DEPGRAPH = (jid :> deps.value) @@ @]
                      st3 == explore_each(conf, complete, st2, jid, 1)
                  IN  IF complete
                      THEN explore_revdeps(conf, complete, st3, jid,
                                           get_job_revdeps(conf, jid), 1)
                      ELSE st3

\* _create_job_depgraph(job_id, complete), the job ids being among ids
create_job_depgraph(conf, ids, job_id, complete) ==
    explore_deps(conf, complete,
                 [processed |-> {}, DEPGRAPH |-> <<>>, raised |-> "none",
                  reads |-> [j \in ids |-> 0]],
                 job_id)

\* JobControl._get_runner_function
get_runner_function(name) ==
    IF name = "" THEN Raised("ValueError(empty function name)")
    ELSE Returned(name)

\* JobControl.report_progress called with the context stack stk: the
\* build_progress table after the call, or the error raised
report_progress(stk, pt, bs, group_name, current, total, status_line) ==
    LET c == get_current_ctx(stk)
    IN  IF c.raised # "none" THEN c
        ELSE report_build_progress(pt, bs, c.value.build_id, current, total,
                                   group_name, status_line)

\* JobControlLogHandler.emit called with the context stack stk: the log
\* table after the call (the record is ignored without a context)
log_emit(stk, lt, record) ==
    LET c == get_current_ctx(stk)
    IN  IF c.raised # "none" THEN Returned(lt)
        ELSE storage_log_message(lt, c.value.build_id, record)

\* an _install_log_handler that adds the handler at every call
install_log_handler_always(h) == h + 1

\* JobControl._install_log_handler: the handler is added to the root logger
\* unless it is among its handlers already (h counts its occurrences)
install_log_handler(h) == IF h >= 1 THEN h ELSE h + 1

\* a record logged while the root logger has the handler n times: emit is
\* called once for each occurrence
RECURSIVE logger_handle(_, _, _, _)
logger_handle(stk, lt, record, n) ==
    IF n = 0 THEN Returned(lt)
    ELSE LET r == log_emit(stk, lt, record)
         IN  IF r.raised # "none" THEN r
             ELSE logger_handle(stk, r.value, record, n - 1)

\* the ways a job function ends: it returns an object, raises SkipBuild or
\* raises another exception
Outcomes ==
    {[kind |-> "return", obj |-> v] : v \in RetVals}
        \cup {[kind |-> "skip", obj |-> None]}
        \cup {[kind |-> "error", obj |-> Exc(e)] : e \in JobErrors}

\* the except / else clauses of _run_build: the finish_build call made for
\* the way the try block ended
finish_for_outcome(bs, build_id, outcome) ==
    CASE outcome.kind = "skip" ->
            storage_finish_build(bs, build_id, TRUE, TRUE, None, None, None)
      [] outcome.kind = "error" ->
            storage_finish_build(bs, build_id, FALSE, FALSE, None,
                                 outcome.obj, outcome.obj)
      [] OTHER ->
            storage_finish_build(bs, build_id, TRUE, FALSE, outcome.obj,
                                 None, None)


(***************************************************************************)
(* State.                                                                  *)
(***************************************************************************)
VARIABLES
    builds,         \* the build table: build id -> row
    next_build_id,  \* the value the SERIAL id column assigns next
    frames,         \* per thread: its _run_build activations, innermost last
    ctx,            \* per thread: its stack of execution contexts
    last,           \* the last call or step made, and how it ended
    graph,          \* the graph given to resolve_deps
    start,          \* the start vertex given to resolve_deps
    resolved,       \* what resolve_deps returned or raised
    progress,       \* the build_progress table: a sequence of rows
    logs,           \* the log table: a sequence of rows
    opened,         \* the contexts entered by with blocks, oldest first
    table,          \* the progress table given to ProgressReport.from_table
    report,         \* the ProgressReport built from it, None before
    arguments,      \* the argument structure given to prepare_args
    prepared,       \* what prepare_args returned or raised, None before
    query,          \* the arguments of a get_job_builds call, None before
    found,          \* the ids of the builds it returned, None before
    handlers,       \* how many times _log_handler is among the handlers
                    \* of the root logger
    depgraph        \* what _create_job_depgraph returned or raised

vars == <<builds, next_build_id, frames, ctx, last, graph, start, resolved,
          config, progress, logs, opened, table, report, arguments,
          prepared, query, found, clock, handlers, depgraph>>

NoOutcome == [kind |-> "none", obj |-> None]

\* called tells whether the job function was entered, was_finished whether
\* the build a finish_build call was made for was a finished one already,
\* returned what the call gave back to its caller
NoLast == [op |-> "none", thread |-> "", job |-> "", build |-> 0,
           raised |-> "none", called |-> FALSE, outcome |-> NoOutcome,
           args |-> None, ctx0 |-> <<>>, was_finished |-> FALSE,
           returned |-> None, counts |-> <<>>]

Pending == [raised |-> "pending", value |-> <<>>, with_weights |-> FALSE]

\* the state of a fresh JobControl on an empty storage, no thread in a call
Init ==
    /\ builds = <<>>
    /\ next_build_id = 1
    /\ frames = [t \in Threads |-> <<>>]
    /\ ctx = [t \in Threads |-> <<>>]
    /\ last = NoLast
    /\ graph = <<>>
    /\ start = 0
    /\ resolved = Pending
    /\ config = JobsConf
    /\ progress = <<>>
    /\ logs = <<>>
    /\ opened = <<>>
    /\ table = <<>>
    /\ report = None
    /\ arguments = None
    /\ prepared = None
    /\ query = None
    /\ found = None
    /\ clock = 0
    /\ handlers = 0
    /\ depgraph = None

DepVars == <<graph, start, resolved, depgraph>>

\* the inputs and results of the functions applied on their own
PureVars == <<table, report, arguments, prepared, query, found>>

\* what the calls into JobControl leave alone
OtherVars ==
    <<DepVars, config, progress, logs, opened, PureVars, clock>>

Top(t) == frames[t][Len(frames[t])]

\* thread t is at some step of _run_build
InRunBuild(t, pc) == IF frames[t] = <<>> THEN FALSE ELSE Top(t).pc = pc

\* thread t can make a call into JobControl: it is outside of any build
CanCall(t) == frames[t] = <<>>

SetTop(t, f) == [frames EXCEPT ![t] = [@ EXCEPT ![Len(@)] = f]]

\* the activation of _run_build(build), with the stack of contexts at the
\* time of the call
NewFrame(t, info) ==
    [build_id |-> info.id, job_id |-> info.job_id,
     job_config |-> info.job_config, pc |-> "start",
     called |-> FALSE, outcome |-> NoOutcome, raised |-> "none",
     ctx0 |-> ctx[t]]

\* the JobExecutionContext object created by the depth-th activation of t
CtxObject(t, f, depth) ==
    [job_id |-> f.job_id, build_id |-> f.build_id, oid |-> <<t, depth>>]

\* JobControl.create_build(job_id)
CreateBuild(t, job_id) ==
    /\ CanCall(t)
    /\ LET r == create_build(builds, next_build_id, job_id)
       IN  /\ r.raised = "none" => next_build_id <= MaxBuilds
           /\ builds' = r.builds
           /\ next_build_id' = IF r.raised = "none" THEN next_build_id + 1
                               ELSE next_build_id
           /\ last' = [NoLast EXCEPT !.op = "create_build", !.thread = t,
                                     !.job = job_id, !.build = r.build_id,
                                     !.raised = r.raised]
    /\ UNCHANGED <<frames, ctx, OtherVars, handlers>>

\* JobControl.run_build(build_id), up to the call of _run_build
RunBuild(t, build_id) ==
    /\ CanCall(t)
    /\ LET info == storage_get_build(builds, build_id)
       IN  IF info.raised # "none"
           THEN /\ last' = [NoLast EXCEPT !.op = "run_build", !.thread = t,
                                          !.build = build_id,
                                          !.raised = info.raised,
                                          !.ctx0 = ctx[t]]
                /\ UNCHANGED <<frames, handlers>>
           ELSE /\ frames' = [frames EXCEPT
                                 ![t] = Append(@, NewFrame(t, info.value))]
                /\ handlers' = install_log_handler(handlers)
                /\ last' = [NoLast EXCEPT !.op = "call_run_build",
                                          !.thread = t, !.build = build_id,
                                          !.job = info.value.job_id]
    /\ UNCHANGED <<builds, next_build_id, ctx, OtherVars>>

\* JobControl.build_job(job_id): create_build, then run_build up to the
\* call of _run_build
build_job_call(t, job_id) ==
    /\ LET r == create_build(builds, next_build_id, job_id)
           info == storage_get_build(r.builds, r.build_id)
       IN  /\ r.raised = "none" => next_build_id <= MaxBuilds
           /\ builds' = r.builds
           /\ next_build_id' = IF r.raised = "none" THEN next_build_id + 1
                               ELSE next_build_id
           /\ IF r.raised # "none"
              THEN /\ last' = [NoLast EXCEPT !.op = "build_job",
                                  !.thread = t, !.job = job_id,
                                  !.raised = r.raised, !.ctx0 = ctx[t]]
                   /\ UNCHANGED <<frames, handlers>>
              ELSE /\ frames' = [frames EXCEPT
                                   ![t] = Append(@, NewFrame(t, info.value))]
                   /\ handlers' = install_log_handler(handlers)
                   /\ last' = [NoLast EXCEPT !.op = "call_build_job",
                                  !.thread = t, !.job = job_id,
                                  !.build = r.build_id]
    /\ UNCHANGED <<ctx, OtherVars>>

\* build_job(job_id) called by thread t outside of any build
BuildJob(t, job_id) == CanCall(t) /\ build_job_call(t, job_id)

\* build_job(job_id) called by the job function thread t is running
NestedBuildJob(t, job_id) ==
    /\ InRunBuild(t, "running")
    /\ Len(frames[t]) < MaxNesting
    /\ build_job_call(t, job_id)

\* _run_build: self.storage.start_build(build.id)
StartBuild(t) ==
    /\ InRunBuild(t, "start")
    /\ builds' = storage_start_build(builds, Top(t).build_id)
    /\ frames' = SetTop(t, [Top(t) EXCEPT !.pc = "push"])
    /\ last' = [NoLast EXCEPT !.op = "start_build", !.thread = t,
                              !.job = Top(t).job_id,
                              !.build = Top(t).build_id]
    /\ UNCHANGED <<next_build_id, ctx, OtherVars, handlers>>

\* a push onto a stack that all the threads of the process share
PushContextShared(t) ==
    /\ InRunBuild(t, "push")
    /\ ctx' = [u \in Threads |->
                 ctx_push(ctx[u], CtxObject(t, Top(t), Len(frames[t])))]
    /\ frames' = SetTop(t, [Top(t) EXCEPT !.pc = "prepare"])
    /\ last' = [NoLast EXCEPT !.op = "push", !.thread = t,
                              !.job = Top(t).job_id,
                              !.build = Top(t).build_id]
    /\ UNCHANGED <<builds, next_build_id, OtherVars, handlers>>

\* _run_build: ctx = JobExecutionContext(...); ctx.push()
PushContext(t) ==
    /\ InRunBuild(t, "push")
    /\ ctx' = [ctx EXCEPT ![t] = ctx_push(@, CtxObject(t, Top(t),
                                                     Len(frames[t])))]
    /\ frames' = SetTop(t, [Top(t) EXCEPT !.pc = "prepare"])
    /\ last' = [NoLast EXCEPT !.op = "push", !.thread = t,
                              !.job = Top(t).job_id,
                              !.build = Top(t).build_id]
    /\ UNCHANGED <<builds, next_build_id, OtherVars, handlers>>

\* a try block that takes the function and the arguments from the current
\* configuration of the job instead of the build's job_config
run_build_prepare_current(build, top, bs) ==
    LET conf == get_job(build.job_id).value
        function == get_runner_function(conf.function)
        args == prepare_args(conf.args, build, top, bs)
        kwargs == prepare_args(conf.kwargs, build, top, bs)
    IN  IF function.raised # "none" THEN function
        ELSE IF args.raised # "none" THEN args
        ELSE IF kwargs.raised # "none" THEN kwargs
        ELSE Returned([function |-> function.value, args |-> args.value,
                       kwargs |-> kwargs.value])

\* the try block of _run_build up to the call of the function: the function
\* and the arguments it is called with, or the error raised
run_build_prepare(build, top, bs) ==
    LET function == get_runner_function(build.job_config.function)
        args == prepare_args(build.job_config.args, build, top, bs)
        kwargs == prepare_args(build.job_config.kwargs, build, top, bs)
    IN  IF function.raised # "none" THEN function
        ELSE IF args.raised # "none" THEN args
        ELSE IF kwargs.raised # "none" THEN kwargs
        ELSE Returned([function |-> function.value, args |-> args.value,
                       kwargs |-> kwargs.value])

\* _run_build: the function is looked up, the arguments are prepared and
\* the function is entered; an error raised here is what the try block
\* ends with
PrepareCall(t) ==
    /\ InRunBuild(t, "prepare")
    /\ LET r == run_build_prepare(Top(t), local_top(ctx[t]), builds)
       IN  IF r.raised # "none"
           THEN /\ frames' = SetTop(t, [Top(t) EXCEPT
                                !.pc = "finish",
                                !.outcome = [kind |-> "error",
                                             obj |-> Exc(r.raised)]])
                /\ last' = [NoLast EXCEPT !.op = "prepare", !.thread = t,
                                          !.job = Top(t).job_id,
                                          !.build = Top(t).build_id,
                                          !.raised = r.raised]
           ELSE /\ frames' = SetTop(t, [Top(t) EXCEPT !.pc = "running",
                                                       !.called = TRUE])
                /\ last' = [NoLast EXCEPT !.op = "prepare", !.thread = t,
                                          !.job = Top(t).job_id,
                                          !.build = Top(t).build_id,
                                          !.called = TRUE,
                                          !.args = r.value]
    /\ UNCHANGED <<builds, next_build_id, ctx, OtherVars, handlers>>

\* the finish_build call of _run_build for the outcome of the try block; an
\* error it raises leaves the build table as it was and propagates
FinishStep(t, outcome) ==
    LET r == finish_for_outcome(builds, Top(t).build_id, outcome)
    IN  /\ builds' = IF r.raised # "none" THEN builds ELSE r.value
        /\ frames' = SetTop(t, [Top(t) EXCEPT
                                   !.pc = "pop",
                                   !.outcome = outcome,
                                   !.raised = r.raised])
        /\ last' = [NoLast EXCEPT !.op = "finish_build", !.thread = t,
                                  !.job = Top(t).job_id,
                                  !.build = Top(t).build_id,
                                  !.called = Top(t).called,
                                  !.outcome = outcome,
                                  !.raised = r.raised,
                                  !.was_finished =
                                      builds[Top(t).build_id].finished]
        /\ UNCHANGED <<next_build_id, ctx, OtherVars, handlers>>

\* _run_build: the job function ends (it returns, raises SkipBuild or raises
\* another exception) and the matching clause calls finish_build
FunctionEnds(t, outcome) ==
    /\ InRunBuild(t, "running")
    /\ FinishStep(t, outcome)

\* _run_build: the except clause after an error raised before the function
\* was entered
FinishFailedCall(t) ==
    /\ InRunBuild(t, "finish")
    /\ FinishStep(t, Top(t).outcome)

\* _run_build: finally: ctx.pop(); the call of run_build ends
PopContext(t) ==
    /\ InRunBuild(t, "pop")
    /\ LET popped == ctx_pop(ctx[t], CtxObject(t, Top(t), Len(frames[t])))
           raised == IF popped.raised # "none" THEN popped.raised
                     ELSE Top(t).raised
       IN  /\ ctx' = [ctx EXCEPT ![t] = popped.stack]
           /\ last' = [NoLast EXCEPT !.op = "run_build", !.thread = t,
                                     !.job = Top(t).job_id,
                                     !.build = Top(t).build_id,
                                     !.called = Top(t).called,
                                     !.outcome = Top(t).outcome,
                                     !.raised = raised,
                                     !.ctx0 = Top(t).ctx0,
                                     !.returned =
                                        IF raised # "none" THEN None
                                        ELSE run_build_return(
                                                 Top(t).build_id)]
    /\ frames' = [frames EXCEPT ![t] = SubSeq(@, 1, Len(@) - 1)]
    /\ UNCHANGED <<builds, next_build_id, OtherVars, handlers>>

\* the steps of one thread
ThreadNext(t) ==
    \/ \E job_id \in JobIdInputs : CreateBuild(t, job_id)
    \/ \E build_id \in BuildIds : RunBuild(t, build_id)
    \/ \E job_id \in JobIdInputs : BuildJob(t, job_id)
    \/ StartBuild(t)
    \/ PushContext(t)
    \/ PrepareCall(t)
    \/ \E outcome \in Outcomes : FunctionEnds(t, outcome)
    \/ FinishFailedCall(t)
    \/ PopContext(t)

Next == \E t \in Callers : ThreadNext(t)

Spec == Init /\ [][Next]_vars

(***************************************************************************)
(* Builds across an edit of the configuration: the caller makes a new      *)
(* JobControl object on the same storage with the edited configuration.    *)
(***************************************************************************)
\* jc = JobControl(storage=storage, config=new), between two calls
ReplaceConfig(new) ==
    /\ \A t \in Threads : frames[t] = <<>>
    /\ new # config
    /\ config' = new
    /\ last' = [NoLast EXCEPT !.op = "replace_config"]
    /\ UNCHANGED <<builds, next_build_id, frames, ctx, DepVars, progress,
                   logs, opened, PureVars, clock, handlers>>

\* the jobs built across the edit
ConfJobIds == {"A", "B"}

ConfThreadNext(t) ==
    \/ \E job_id \in ConfJobIds :
          next_build_id <= ConfBuilds /\ CreateBuild(t, job_id)
    \/ \E build_id \in BuildIds : RunBuild(t, build_id)
    \/ StartBuild(t)
    \/ PushContext(t)
    \/ PrepareCall(t)
    \/ \E outcome \in Outcomes : FunctionEnds(t, outcome)
    \/ FinishFailedCall(t)
    \/ PopContext(t)

ConfNext ==
    \/ \E t \in Callers : ConfThreadNext(t)
    \/ \E new \in ConfigInputs : ReplaceConfig(new)

ConfSpec == Init /\ [][ConfNext]_vars

(***************************************************************************)
(* Job code reporting progress and logging; build_job calls made by the    *)
(* threads concurrently.                                                   *)
(***************************************************************************)
\* the group names, (current, total) pairs and log records job code gives
GroupInputs == {Scalar("g")}

CountInputs == {<<IntObj(1), IntObj(2)>>}

RecordInputs == {Scalar("record")}

\* the code thread t runs (job code when inside a build) calls
\* app.report_progress(group_name, current, total)
ReportProgress(t, group_name, current, total) ==
    /\ IF frames[t] = <<>> THEN TRUE ELSE Top(t).pc = "running"
    /\ LET r == report_progress(ctx[t], progress, builds, group_name,
                                current, total, "")
           c == get_current_ctx(ctx[t])
       IN  /\ progress' = IF r.raised # "none" THEN progress ELSE r.value
           /\ last' = [NoLast EXCEPT
                         !.op = "report_progress", !.thread = t,
                         !.build = IF c.raised # "none" THEN 0
                                   ELSE c.value.build_id,
                         !.args = group_name,
                         !.counts = <<current, total>>,
                         !.raised = r.raised]
    /\ UNCHANGED <<builds, next_build_id, frames, ctx, DepVars, config, logs,
                   opened, PureVars, clock, handlers>>

\* the code thread t runs logs a record: JobControlLogHandler.emit
EmitLog(t, record) ==
    /\ IF frames[t] = <<>> THEN TRUE ELSE Top(t).pc = "running"
    /\ Len(logs) < MaxLogs
    /\ LET r == logger_handle(ctx[t], logs, record, handlers)
           c == get_current_ctx(ctx[t])
       IN  /\ logs' = IF r.raised # "none" THEN logs ELSE r.value
           /\ last' = [NoLast EXCEPT
                         !.op = "log", !.thread = t,
                         !.build = IF c.raised # "none" THEN 0
                                   ELSE c.value.build_id,
                         !.args = record,
                         !.raised = r.raised]
    /\ UNCHANGED <<builds, next_build_id, frames, ctx, DepVars, config,
                   progress, opened, PureVars, clock, handlers>>

\* the jobs built concurrently, and the ways their functions end
ConcJobIds == {"A"}

ConcOutcomes ==
    {[kind |-> "return", obj |-> Scalar("v1")],
     [kind |-> "error", obj |-> Exc("RuntimeError")]}

ConcThreadNext(t) ==
    \/ \E job_id \in ConcJobIds :
          next_build_id <= ConcBuilds /\ BuildJob(t, job_id)
    \/ StartBuild(t)
    \/ PushContext(t)
    \/ PrepareCall(t)
    \/ \E g \in GroupInputs, c \in CountInputs :
          ReportProgress(t, g, c[1], c[2])
    \/ \E record \in RecordInputs : EmitLog(t, record)
    \/ \E outcome \in ConcOutcomes : FunctionEnds(t, outcome)
    \/ PopContext(t)

ConcNext == \E t \in Threads : ConcThreadNext(t)

ConcSpec == Init /\ [][ConcNext]_vars

(***************************************************************************)
(* Job code that reports progress, and builds another job from inside its  *)
(* own build.                                                              *)
(***************************************************************************)
\* the group names given: the top level as None and as '', and a group
ProgGroupInputs == {None, Scalar(""), Scalar("g")}

ProgCountInputs == {<<IntObj(1), IntObj(2)>>, <<IntObj(2), IntObj(2)>>}

\* the reporting job function returns
ProgOutcomes == {[kind |-> "return", obj |-> Scalar("v1")]}

ProgThreadNext(t) ==
    \/ \E job_id \in ConcJobIds :
          next_build_id <= ProgBuilds /\ BuildJob(t, job_id)
    \/ \E job_id \in ConcJobIds :
          next_build_id <= ProgBuilds /\ NestedBuildJob(t, job_id)
    \/ StartBuild(t)
    \/ PushContext(t)
    \/ PrepareCall(t)
    \/ \E g \in ProgGroupInputs, c \in ProgCountInputs :
          Len(progress) < MaxRows /\ ReportProgress(t, g, c[1], c[2])
    \/ \E outcome \in ProgOutcomes : FunctionEnds(t, outcome)
    \/ PopContext(t)

ProgNext == \E t \in Callers : ProgThreadNext(t)

ProgSpec == Init /\ [][ProgNext]_vars

(***************************************************************************)
(* Job code that builds another job from inside its own build, and logs    *)
(* and reports progress before and after; the inner build ends in any way. *)
(***************************************************************************)
NestBuilds == 3

\* the ways the job functions end
NestOutcomes ==
    {[kind |-> "return", obj |-> Scalar("v1")],
     [kind |-> "skip", obj |-> None],
     [kind |-> "error", obj |-> Exc("RuntimeError")]}

NestThreadNext(t) ==
    \/ \E job_id \in ConcJobIds :
          next_build_id <= NestBuilds /\ BuildJob(t, job_id)
    \/ \E job_id \in ConcJobIds :
          next_build_id <= NestBuilds /\ NestedBuildJob(t, job_id)
    \/ StartBuild(t)
    \/ PushContext(t)
    \/ PrepareCall(t)
    \/ \E g \in GroupInputs, c \in CountInputs :
          ReportProgress(t, g, c[1], c[2])
    \/ \E record \in RecordInputs : EmitLog(t, record)
    \/ \E outcome \in NestOutcomes : FunctionEnds(t, outcome)
    \/ PopContext(t)

NestNext == \E t \in Callers : NestThreadNext(t)

NestSpec == Init /\ [][NestNext]_vars

(***************************************************************************)
(* Builds that are run to their end: once run_build has called _run_build  *)
(* its steps are taken, and the job function terminates in one of the ways *)
(* it can.                                                                 *)
(***************************************************************************)
LiveBuilds == 3

\* the jobs built: A, B that takes the return value of A, and C that asks
\* for the return value of a job it does not depend on
LiveJobIds == {"A", "B", "C"}

\* the steps of _run_build, from start_build to the pop of the context
RunSteps(t) ==
    \/ StartBuild(t)
    \/ PushContext(t)
    \/ PrepareCall(t)
    \/ \E outcome \in Outcomes : FunctionEnds(t, outcome)
    \/ FinishFailedCall(t)
    \/ PopContext(t)

LiveThreadNext(t) ==
    \/ \E job_id \in LiveJobIds :
          next_build_id <= LiveBuilds /\ BuildJob(t, job_id)
    \/ RunSteps(t)

LiveNext == \E t \in Callers : LiveThreadNext(t)

LiveSpec ==
    Init /\ [][LiveNext]_vars /\ \A t \in Callers : WF_vars(RunSteps(t))

(***************************************************************************)
(* Builds created, run, run again and deleted by one caller.               *)
(***************************************************************************)
PinBuilds == 2

\* the jobs built: A, and B that depends on A
PinJobIds == {"A", "B"}

\* BuildInfo.delete of the build with that id
DeleteBuild(t, build_id) ==
    /\ CanCall(t)
    /\ builds' = storage_delete_build(builds, build_id)
    /\ last' = [NoLast EXCEPT !.op = "delete", !.thread = t,
                              !.build = build_id]
    /\ UNCHANGED <<next_build_id, frames, ctx, OtherVars, handlers>>

PinThreadNext(t) ==
    \/ \E job_id \in PinJobIds :
          next_build_id <= PinBuilds /\ CreateBuild(t, job_id)
    \/ \E build_id \in 1..PinBuilds : RunBuild(t, build_id)
    \/ \E build_id \in 1..PinBuilds : DeleteBuild(t, build_id)
    \/ StartBuild(t)
    \/ PushContext(t)
    \/ PrepareCall(t)
    \/ \E outcome \in NestOutcomes : FunctionEnds(t, outcome)
    \/ FinishFailedCall(t)
    \/ PopContext(t)

PinNext == \E t \in Callers : PinThreadNext(t)

PinSpec == Init /\ [][PinNext]_vars

(***************************************************************************)
(* The status of the jobs as builds are made and run while time passes.    *)
(***************************************************************************)
MaxClock == 1
StatusBuilds == 2

\* the jobs queried: A, and B that depends on A
StatusJobIds == {"A", "B"}

\* the ways the job functions end
StatusOutcomes ==
    {[kind |-> "return", obj |-> Scalar("v1")],
     [kind |-> "skip", obj |-> None],
     [kind |-> "error", obj |-> Exc("RuntimeError")]}

\* time passes between two calls
Tick ==
    /\ \A t \in Threads : frames[t] = <<>>
    /\ clock < MaxClock
    /\ clock' = clock + 1
    /\ last' = [NoLast EXCEPT !.op = "tick"]
    /\ UNCHANGED <<builds, next_build_id, frames, ctx, DepVars, config,
                   progress, logs, opened, PureVars, handlers>>

\* jc.get_job(job_id).is_outdated()
IsOutdated(t, job_id) ==
    /\ CanCall(t)
    /\ last' = [NoLast EXCEPT !.op = "is_outdated", !.thread = t,
                              !.job = job_id,
                              !.returned = is_outdated(builds, job_id)]
    /\ UNCHANGED <<builds, next_build_id, frames, ctx, OtherVars, handlers>>

\* the status of the job is derived, as for the dependency graph page
JobStatus(t, job_id) ==
    /\ CanCall(t)
    /\ last' = [NoLast EXCEPT !.op = "job_status", !.thread = t,
                              !.job = job_id,
                              !.returned =
                                  Scalar(job_status(builds, job_id))]
    /\ UNCHANGED <<builds, next_build_id, frames, ctx, OtherVars, handlers>>

StatusThreadNext(t) ==
    \/ \E job_id \in StatusJobIds :
          next_build_id <= StatusBuilds /\ CreateBuild(t, job_id)
    \/ \E build_id \in BuildIds : RunBuild(t, build_id)
    \/ StartBuild(t)
    \/ PushContext(t)
    \/ PrepareCall(t)
    \/ \E outcome \in StatusOutcomes : FunctionEnds(t, outcome)
    \/ FinishFailedCall(t)
    \/ PopContext(t)
    \/ \E job_id \in StatusJobIds : IsOutdated(t, job_id)
    \/ \E job_id \in StatusJobIds : JobStatus(t, job_id)

StatusNext ==
    \/ \E t \in Callers : StatusThreadNext(t)
    \/ Tick

StatusSpec == Init /\ [][StatusNext]_vars

(***************************************************************************)
(* ProgressReport.from_table applied to the tables a caller can give.      *)
(***************************************************************************)
MaxEntries == 3

\* the names of the entries: None and () for the node itself, and paths
NameInputs ==
    {None, Tuple(<<>>), Tuple(<<"a">>), Tuple(<<"b">>), Tuple(<<"a", "a">>),
     Tuple(<<"a", "b">>)}

\* the (current, total, status_line) triples of the entries
ValueInputs ==
    {<<IntObj(0), IntObj(0), Scalar("s0")>>,
     <<IntObj(1), IntObj(2), Scalar("s1")>>,
     <<IntObj(2), IntObj(5), Scalar("s2")>>}

\* the caller appends the tuple (name, current, total, status_line)
AddEntry(name, v) ==
    /\ report = None
    /\ Len(table) < MaxEntries
    /\ table' = Append(table, [name |-> name, current |-> v[1],
                               total |-> v[2], status_line |-> v[3]])
    /\ UNCHANGED <<builds, next_build_id, frames, ctx, last, DepVars, config,
                   progress, logs, opened, report, arguments, prepared,
                   query, found, clock, handlers>>

\* a call ProgressReport.from_table(table)
FromTable ==
    /\ report = None
    /\ report' = from_table(table, None)
    /\ UNCHANGED <<builds, next_build_id, frames, ctx, last, DepVars, config,
                   progress, logs, opened, table, arguments, prepared,
                   query, found, clock, handlers>>

TableNext ==
    \/ \E name \in NameInputs, v \in ValueInputs : AddEntry(name, v)
    \/ FromTable

TableSpec == Init /\ [][TableNext]_vars

(***************************************************************************)
(* The calls of one caller that builds with build_job only, and looks up   *)
(* jobs and builds.                                                        *)
(***************************************************************************)

\* JobControl.get_job(job_id)
GetJob(t, job_id) ==
    /\ CanCall(t)
    /\ LET r == get_job(job_id)
       IN  last' = [NoLast EXCEPT !.op = "get_job", !.thread = t,
                                  !.job = job_id, !.raised = r.raised,
                                  !.returned = IF r.raised # "none" THEN None
                                               ELSE Scalar(r.value.id)]
    /\ UNCHANGED <<builds, next_build_id, frames, ctx, OtherVars, handlers>>

\* JobControl.get_build(build_id)
GetBuild(t, build_id) ==
    /\ CanCall(t)
    /\ LET r == get_build(builds, build_id)
       IN  last' = [NoLast EXCEPT !.op = "get_build", !.thread = t,
                                  !.build = build_id, !.raised = r.raised,
                                  !.returned = IF r.raised # "none" THEN None
                                               ELSE IntObj(r.value.id)]
    /\ UNCHANGED <<builds, next_build_id, frames, ctx, OtherVars, handlers>>

ApiThreadNext(t) ==
    \/ \E job_id \in JobIdInputs : GetJob(t, job_id)
    \/ \E build_id \in BuildIds : GetBuild(t, build_id)
    \/ \E job_id \in JobIdInputs : CreateBuild(t, job_id)
    \/ \E job_id \in JobIdInputs : BuildJob(t, job_id)
    \/ StartBuild(t)
    \/ PushContext(t)
    \/ PrepareCall(t)
    \/ \E outcome \in Outcomes : FunctionEnds(t, outcome)
    \/ FinishFailedCall(t)
    \/ PopContext(t)

ApiNext == \E t \in Callers : ApiThreadNext(t)

ApiSpec == Init /\ [][ApiNext]_vars

(***************************************************************************)
(* Queries on the build table: get_job_builds with every combination of    *)
(* filters, order and limit, on the tables the builds of two jobs produce. *)
(***************************************************************************)
QueryBuilds == 2

\* started, finished, success, skipped: None, True or False
FlagInputs == {"any", "true", "false"}

OrderInputs == {"asc", "desc"}

\* limit: None (-1), or a number of rows
LimitInputs == {-1, 1, 2}

QueryInputs ==
    [job_id : StatusJobIds, started : FlagInputs, finished : FlagInputs,
     success : FlagInputs, skipped : FlagInputs, order : OrderInputs,
     limit : LimitInputs]

\* list(storage.get_job_builds(job_id, started, finished, success, skipped,
\* order, limit)), of which the ids are kept
GetJobBuilds(t, q) ==
    /\ CanCall(t)
    /\ LET rows == storage_get_job_builds(builds, q.job_id, q.started,
                                          q.finished, q.success, q.skipped,
                                          q.order, q.limit)
       IN  found' = [k \in 1..Len(rows) |-> rows[k].id]
    /\ query' = q
    /\ last' = [NoLast EXCEPT !.op = "get_job_builds", !.thread = t,
                              !.job = q.job_id]
    /\ UNCHANGED <<builds, next_build_id, frames, ctx, DepVars, config,
                   progress, logs, opened, table, report, arguments,
                   prepared, clock, handlers>>

\* jc.get_job(job_id).get_latest_successful_build()
GetLatestSuccessfulBuild(t, job_id) ==
    /\ CanCall(t)
    /\ LET build == get_latest_successful_build(builds, job_id)
       IN  last' = [NoLast EXCEPT !.op = "get_latest_successful_build",
                                  !.thread = t, !.job = job_id,
                                  !.returned = IF build = None THEN None
                                               ELSE IntObj(build.id)]
    /\ UNCHANGED <<builds, next_build_id, frames, ctx, OtherVars, handlers>>

\* the builds are made and run, then the table is queried
QueryThreadNext(t) ==
    /\ query = None
    /\ \/ \E job_id \in StatusJobIds :
             next_build_id <= QueryBuilds /\ CreateBuild(t, job_id)
       \/ \E build_id \in BuildIds : RunBuild(t, build_id)
       \/ StartBuild(t)
       \/ PushContext(t)
       \/ PrepareCall(t)
       \/ \E outcome \in StatusOutcomes : FunctionEnds(t, outcome)
       \/ FinishFailedCall(t)
       \/ PopContext(t)
       \/ \E job_id \in StatusJobIds : GetLatestSuccessfulBuild(t, job_id)
       \/ \E q \in QueryInputs : GetJobBuilds(t, q)

QueryNext == \E t \in Callers : QueryThreadNext(t)

QuerySpec == Init /\ [][QueryNext]_vars

(***************************************************************************)
(* prepare_args applied to argument structures of every shape, at the      *)
(* place _run_build applies it: inside the context of the build.           *)
(***************************************************************************)
MaxArgs == 2
ArgBuilds == 2

\* the values without items: a string, None, an object of another type and
\* the placeholder of the return value of A
ArgAtoms == {Scalar("s"), None, OtherObject, Retval("A")}

\* the sequences of at most MaxArgs atoms
ArgSeqs == UNION {[1..n -> ArgAtoms] : n \in 0..MaxArgs}

\* the dicts of at most MaxArgs items, with keys that stay different
ArgKeys == <<Scalar("k1"), Scalar("k2"), Scalar("k3")>>

ArgDicts == {[i \in 1..Len(vs) |-> <<ArgKeys[i], vs[i]>>] : vs \in ArgSeqs}

\* the atoms, the lists and tuples of atoms, and lists of them
ArgListInputs ==
    ArgAtoms \cup {List(xs) : xs \in ArgSeqs}
             \cup {Tuple(xs) : xs \in ArgSeqs}
             \cup {List(<<x>>) : x \in {List(<<a>>) : a \in ArgAtoms}}

\* the dicts of atoms, a dict with a tuple as a value and one with None as
\* a key
ArgDictInputs ==
    {Dict(items) : items \in ArgDicts}
        \cup {Dict(<< <<Scalar("k1"), x>> >>) :
                 x \in {Tuple(<<a>>) : a \in ArgAtoms}}
        \cup {Dict(<< <<None, Scalar("s")>> >>)}

\* prepare_args(args, build), called as _run_build calls it
PrepareArgs(t, args) ==
    /\ InRunBuild(t, "prepare")
    /\ arguments' = args
    /\ prepared' = prepare_args(args, Top(t), local_top(ctx[t]), builds)
    /\ last' = [NoLast EXCEPT !.op = "prepare_args", !.thread = t,
                              !.job = Top(t).job_id,
                              !.build = Top(t).build_id]
    /\ UNCHANGED <<builds, next_build_id, frames, ctx, DepVars, config,
                   progress, logs, opened, table, report, query, found,
                   clock, handlers>>

\* A and B are built, and prepare_args is applied once
ArgsThreadNext(t) ==
    /\ arguments = None
    /\ \/ \E job_id \in StatusJobIds :
             next_build_id <= ArgBuilds /\ BuildJob(t, job_id)
       \/ StartBuild(t)
       \/ PushContext(t)
       \/ PrepareCall(t)
       \/ \E outcome \in StatusOutcomes : FunctionEnds(t, outcome)
       \/ FinishFailedCall(t)
       \/ PopContext(t)
       \/ \E args \in ArgListInputs : PrepareArgs(t, args)
       \/ \E args \in ArgDictInputs : PrepareArgs(t, args)

ArgsNext == \E t \in Callers : ArgsThreadNext(t)

ArgsSpec == Init /\ [][ArgsNext]_vars

(***************************************************************************)
(* JobExecutionContext used as a context manager: with blocks, properly    *)
(* nested, entered and left by one thread outside of any build.            *)
(***************************************************************************)
MaxPushes == 4

\* the (job_id, build_id) pairs the contexts are made for
ContextInputs == {<<"A", 1>>, <<"B", 2>>}

\* the attributes read through _get_ctx_object
AttributeInputs == {"job_id", "build_id"}

\* the positions in opened of the with blocks not left yet
LiveContexts == {k \in 1..Len(opened) : opened[k].live}

\* the innermost with block not left yet
Innermost == CHOOSE k \in LiveContexts : \A j \in LiveContexts : j <= k

\* with JobExecutionContext(app, job_id, build_id): the __enter__
EnterContext(t, job_id, build_id) ==
    /\ frames[t] = <<>>
    /\ Len(opened) < MaxPushes
    /\ LET self == [job_id |-> job_id, build_id |-> build_id,
                    oid |-> <<t, Len(opened) + 1>>]
       IN  /\ ctx' = [ctx EXCEPT ![t] = ctx_push(@, self)]
           /\ opened' = Append(opened, [obj |-> self, live |-> TRUE])
           /\ last' = [NoLast EXCEPT !.op = "enter", !.thread = t,
                                     !.job = job_id, !.build = build_id,
                                     !.args = self]
    /\ UNCHANGED <<builds, next_build_id, frames, DepVars, config, progress,
                   logs, PureVars, clock, handlers>>

\* the end of the innermost with block: the __exit__ of its context
ExitContext(t) ==
    /\ frames[t] = <<>>
    /\ LiveContexts # {}
    /\ LET self == opened[Innermost].obj
           r == ctx_pop(ctx[t], self)
       IN  /\ ctx' = [ctx EXCEPT ![t] = r.stack]
           /\ opened' = [opened EXCEPT ![Innermost].live = FALSE]
           /\ last' = [NoLast EXCEPT !.op = "exit", !.thread = t,
                                     !.job = self.job_id,
                                     !.build = self.build_id,
                                     !.args = self, !.raised = r.raised]
    /\ UNCHANGED <<builds, next_build_id, frames, DepVars, config, progress,
                   logs, PureVars, clock, handlers>>

\* the code of thread t reads execution_context
ReadContext(t) ==
    /\ frames[t] = <<>>
    /\ LET r == get_current_ctx(ctx[t])
       IN  last' = [NoLast EXCEPT !.op = "read", !.thread = t,
                                  !.raised = r.raised,
                                  !.args = IF r.raised # "none" THEN None
                                           ELSE r.value]
    /\ UNCHANGED <<builds, next_build_id, frames, ctx, OtherVars, handlers>>

\* the code of thread t reads an attribute of the current context
ReadAttribute(t, name) ==
    /\ frames[t] = <<>>
    /\ LET r == get_ctx_object(ctx[t], name)
       IN  last' = [NoLast EXCEPT !.op = "getattr", !.thread = t,
                                  !.job = name,
                                  !.raised = r.raised,
                                  !.args = IF r.raised # "none" THEN None
                                           ELSE Scalar(r.value)]
    /\ UNCHANGED <<builds, next_build_id, frames, ctx, OtherVars, handlers>>

CtxNext ==
    \E t \in Callers :
        \/ \E c \in ContextInputs : EnterContext(t, c[1], c[2])
        \/ ExitContext(t)
        \/ ReadContext(t)
        \/ \E name \in AttributeInputs : ReadAttribute(t, name)

CtxSpec == Init /\ [][CtxNext]_vars

(***************************************************************************)
(* pop() called by hand on any context object the code holds, innermost    *)
(* or not.                                                                 *)
(***************************************************************************)
\* self.pop() of the context object entered k-th
CallPop(t, k) ==
    /\ frames[t] = <<>>
    /\ k \in 1..Len(opened)
    /\ LET self == opened[k].obj
           r == ctx_pop(ctx[t], self)
       IN  /\ ctx' = [ctx EXCEPT ![t] = r.stack]
           /\ last' = [NoLast EXCEPT !.op = "pop", !.thread = t,
                                     !.job = self.job_id,
                                     !.build = self.build_id,
                                     !.args = self, !.raised = r.raised]
    /\ UNCHANGED <<builds, next_build_id, frames, DepVars, config, progress,
                   logs, opened, PureVars, clock, handlers>>

PopNext ==
    \E t \in Callers :
        \/ \E c \in ContextInputs : EnterContext(t, c[1], c[2])
        \/ \E k \in 1..MaxPushes : CallPop(t, k)
        \/ ReadContext(t)

PopSpec == Init /\ [][PopNext]_vars

(***************************************************************************)
(* resolve_deps applied to the graphs a caller can build.                  *)
(***************************************************************************)
RECURSIVE SumLen(_, _)
\* the number of edges of g among the vertices 1..n
SumLen(g, n) == IF n = 0 THEN 0 ELSE Len(g[n]) + SumLen(g, n - 1)

\* the caller starts from the dictionary {vertex: []} and picks the start
DepInit ==
    /\ builds = <<>>
    /\ next_build_id = 1
    /\ frames = [t \in Threads |-> <<>>]
    /\ ctx = [t \in Threads |-> <<>>]
    /\ last = NoLast
    /\ graph = [v \in Vertices |-> <<>>]
    /\ start \in Vertices
    /\ resolved = Pending
    /\ config = JobsConf
    /\ progress = <<>>
    /\ logs = <<>>
    /\ opened = <<>>
    /\ table = <<>>
    /\ report = None
    /\ arguments = None
    /\ prepared = None
    /\ query = None
    /\ found = None
    /\ clock = 0
    /\ handlers = 0
    /\ depgraph = None

\* the caller appends dest to the dependencies of vertex
AddEdge(vertex, dest) ==
    /\ resolved = Pending
    /\ SumLen(graph, NumVertices) < MaxEdges
    /\ graph' = [graph EXCEPT ![vertex] = Append(@, dest)]
    /\ UNCHANGED <<builds, next_build_id, frames, ctx, last, start, resolved,
                   depgraph, config, progress, logs, opened, PureVars, clock, handlers>>

\* a call resolve_deps(graph, start, with_weights)
ResolveDeps(with_weights) ==
    /\ resolved = Pending
    /\ resolved' = [with_weights |-> with_weights]
                        @@ resolve_deps(graph, start, with_weights)
    /\ UNCHANGED <<builds, next_build_id, frames, ctx, last, graph, start,
                   depgraph, config, progress, logs, opened, PureVars, clock, handlers>>

DepNext ==
    \/ \E vertex \in Vertices, dest \in Vertices : AddEdge(vertex, dest)
    \/ \E with_weights \in BOOLEAN : ResolveDeps(with_weights)

DepSpec == DepInit /\ [][DepNext]_vars

(***************************************************************************)
(* The dependency graph of a job: the jobs of a configuration are the      *)
(* vertices, their dependency lists are written entry by entry, and a      *)
(* dependency may name a job the configuration does not have.              *)
(***************************************************************************)
\* a job id the configuration has no job for
NoJob == 0

JobIds == Vertices \cup {NoJob}

\* jc._create_job_depgraph(start, complete)
CreateJobDepgraph(complete) ==
    /\ depgraph = None
    /\ depgraph' = [complete |-> complete]
                       @@ create_job_depgraph(graph, JobIds, start, complete)
    /\ UNCHANGED <<builds, next_build_id, frames, ctx, last, graph, start,
                   resolved, config, progress, logs, opened, PureVars, clock,
                   handlers>>

\* jc._resolve_deps(depgraph, start)
ResolveDepgraph ==
    /\ depgraph # None
    /\ depgraph.raised = "none"
    /\ resolved = Pending
    /\ resolved' = [with_weights |-> FALSE]
                       @@ resolve_deps(depgraph.DEPGRAPH, start, FALSE)
    /\ UNCHANGED <<builds, next_build_id, frames, ctx, last, graph, start,
                   depgraph, config, progress, logs, opened, PureVars, clock,
                   handlers>>

GraphNext ==
    \/ \E vertex \in Vertices, dest \in JobIds :
          depgraph = None /\ AddEdge(vertex, dest)
    \/ \E complete \in BOOLEAN : CreateJobDepgraph(complete)
    \/ ResolveDepgraph

GraphSpec == DepInit /\ [][GraphNext]_vars

(***************************************************************************)
(* Properties.                                                             *)
(***************************************************************************)
ConfiguredJobs == {JobsConf[i].id : i \in 1..Len(JobsConf)}

\* the declared dependencies of a configured job, as a sequence and a set
DepsOf(job_id) == config_get_job(job_id).value.dependencies

DepSet(job_id) == {DepsOf(job_id)[i] : i \in 1..Len(DepsOf(job_id))}

\* the last step made was the create_build call of a configured job (by
\* itself or at the head of build_job) and has ended
CreateEnded(l) ==
    /\ l.op \in {"create_build", "build_job", "call_build_job"}
    /\ l.job \in ConfiguredJobs

\* job d has a build that finished with success (skipped or not)
HasSuccess(bs, d) ==
    \E b \in DOMAIN bs : bs[b].job_id = d /\ bs[b].finished /\ bs[b].success

\* the builds of d that were run to a successful, not skipped end
SuccessfulIds(bs, d) ==
    {b \in DOMAIN bs : /\ bs[b].job_id = d
                       /\ bs[b].started /\ bs[b].finished
                       /\ bs[b].success /\ ~bs[b].skipped}

\* d has finished builds and all of them are skipped ones
OnlySkipped(bs, d) ==
    /\ \E b \in DOMAIN bs : bs[b].job_id = d /\ bs[b].finished
    /\ \A b \in DOMAIN bs :
          (bs[b].job_id = d /\ bs[b].finished)
              => (bs[b].success /\ bs[b].skipped)

\* the build of the last step, as get_build returns it
LastBuild == storage_get_build(builds, last.build).value

\* the job configuration holds a placeholder for a job that is not among
\* the declared dependencies
HasInvalidReference(conf) ==
    \/ \E i \in 1..Len(conf.args.items) :
          /\ conf.args.items[i].t = "retval"
          /\ ~InSeq(conf.args.items[i].job_id, conf.dependencies)
    \/ \E i \in 1..Len(conf.kwargs.items) :
          /\ conf.kwargs.items[i][2].t = "retval"
          /\ ~InSeq(conf.kwargs.items[i][2].job_id, conf.dependencies)

\* C1: create_build(j) creates a build record only if every declared
\* dependency of j has a successful build at the time of the call; if some
\* dependency has none, it raises MissingDependencies and the build table
\* is exactly what it was before the call.
C1_CreateBuildNeedsDependencies ==
    [][CreateEnded(last') =>
          LET missing == \E d \in DepSet(last'.job) : ~HasSuccess(builds, d)
          IN  /\ (DOMAIN builds' # DOMAIN builds) => ~missing
              /\ (last'.raised = "none") => ~missing
              /\ missing => /\ last'.raised = "MissingDependencies"
                            /\ builds' = builds]_vars

\* create_build of B was refused while A had only a failed build
C1_Witness ==
    /\ last.op = "create_build" /\ last.job = "B"
    /\ last.raised = "MissingDependencies"
    /\ \E b \in DOMAIN builds :
          builds[b].job_id = "A" /\ builds[b].finished /\ ~builds[b].success
    /\ ~HasSuccess(builds, "A")

\* C2: when run_build ends, the build record is in the terminal outcome
\* given by the way the job function ended: a return gives started,
\* finished, success, not skipped and retval = the returned value; SkipBuild
\* gives finished, success, skipped, no retval and no exception; another
\* exception gives finished, not success, not skipped, the exception and no
\* retval.
C2_TerminalOutcome ==
    (last.op = "run_build" /\ last.called) =>
        CASE last.outcome.kind = "return" ->
                /\ LastBuild.started /\ LastBuild.finished
                /\ LastBuild.success /\ ~LastBuild.skipped
                /\ LastBuild.retval = last.outcome.obj
          [] last.outcome.kind = "skip" ->
                /\ LastBuild.finished /\ LastBuild.success
                /\ LastBuild.skipped
                /\ LastBuild.retval = None /\ LastBuild.exception = None
          [] OTHER ->
                /\ LastBuild.finished /\ ~LastBuild.success
                /\ ~LastBuild.skipped
                /\ LastBuild.exception # None /\ LastBuild.retval = None

\* the vertices the edges of g lead to from v
Succs(g, v) == {g[v][i] : i \in 1..Len(g[v])}

\* the vertices reached from those of S by at most k edges
RECURSIVE ReachIn(_, _, _)
ReachIn(g, S, k) ==
    IF k = 0 THEN S
    ELSE ReachIn(g, S \cup UNION {Succs(g, v) : v \in S}, k - 1)

Reachable(g, s) == ReachIn(g, {s}, NumVertices)

\* v lies on a cycle of g
OnCycle(g, v) == v \in ReachIn(g, Succs(g, v), NumVertices)

CycleReachable(g, s) == \E v \in Reachable(g, s) : OnCycle(g, v)

\* the vertices of the returned list, in its order
ResolvedOrder ==
    IF resolved.with_weights
    THEN [k \in 1..Len(resolved.value) |-> resolved.value[k][2]]
    ELSE resolved.value

\* C3: on a graph with no cycle reachable from start, resolve_deps returns
\* a list holding exactly the vertices reachable from start, each once, and
\* for every edge u -> v among them v comes before u.
C3_AcyclicOrder ==
    (resolved.raised # "pending" /\ ~CycleReachable(graph, start)) =>
        /\ resolved.raised = "none"
        /\ LET order == ResolvedOrder
               pos(v) == CHOOSE i \in 1..Len(order) : order[i] = v
           IN  /\ {order[i] : i \in 1..Len(order)} = Reachable(graph, start)
               /\ Len(order) = Cardinality(Reachable(graph, start))
               /\ \A u \in Reachable(graph, start) :
                     \A v \in Succs(graph, u) : pos(v) < pos(u)

\* a vertex reached along two trails of different lengths was ordered
C3_Witness ==
    /\ resolved.raised = "none"
    /\ Len(resolved.value) = 3
    /\ Len(graph[start]) = 2
    /\ \E v \in Vertices \ {start} : graph[v] # <<>>

\* C4: on a graph with a cycle reachable from start, resolve_deps raises
\* DepLoop and returns no list.
C4_CycleRaises ==
    (resolved.raised # "pending" /\ CycleReachable(graph, start)) =>
        /\ resolved.raised = "DepLoop"
        /\ resolved.value = <<>>

\* DepLoop was raised for a cycle that start is not part of
C4_Witness ==
    /\ resolved.raised = "DepLoop"
    /\ ~OnCycle(graph, start)
    /\ CycleReachable(graph, start)

\* C5: when a call of run_build ends, on whatever path, the context stack
\* of the calling thread is the stack it had before the call.
C5_StackRestored ==
    (last.op \in {"run_build", "build_job"}) =>
        ctx[last.thread] = last.ctx0

\* run_build ended with the error raised by finish_build itself
C5_Witness ==
    /\ last.op = "run_build"
    /\ last.called
    /\ last.raised = "PicklingError"

\* C6: an exception raised by the job function is not raised to the caller
\* of run_build: the call returns normally and the build record holds the
\* failure (finished, not success, exception).
C6_FailureNotReraised ==
    (last.op = "run_build" /\ last.called /\ last.outcome.kind = "error") =>
        /\ last.raised = "none"
        /\ LastBuild.finished /\ ~LastBuild.success
        /\ LastBuild.exception # None

\* C7: the value passed for a placeholder is the retval of the dependency
\* build pinned in the dependency_builds map of the build being run.
C7_PinnedRetval ==
    (last.op = "prepare" /\ last.raised = "none" /\ last.job = "B") =>
        LET pinned == builds[last.build].build_config.dependency_builds["A"]
        IN  last.args.kwargs =
                Dict(<< <<Scalar("retval"),
                          storage_get_build(builds, pinned).value.retval>> >>)

\* C8: a created build's dependency_builds map has the declared
\* dependencies as keys and for each the highest id among its successful
\* (finished, success, not skipped) builds at creation time; the map of an
\* existing build never changes.
C8_PinsLatestAndFrozen ==
    [][/\ \A b \in DOMAIN builds :
             /\ b \in DOMAIN builds'
             /\ builds'[b].build_config = builds[b].build_config
       /\ \A b \in DOMAIN builds' \ DOMAIN builds :
             LET pins == builds'[b].build_config.dependency_builds
             IN  /\ DOMAIN pins = DepSet(builds'[b].job_id)
                 /\ \A d \in DOMAIN pins :
                       /\ pins[d] \in SuccessfulIds(builds, d)
                       /\ \A x \in SuccessfulIds(builds, d) : x <= pins[d]
      ]_vars

\* a build of B pinned to the first build of A, and a later successful
\* build of A
C8_Witness ==
    \E b \in DOMAIN builds, a \in DOMAIN builds :
        /\ builds[b].job_id = "B"
        /\ builds[b].build_config.dependency_builds["A"] < a
        /\ b < a
        /\ a \in SuccessfulIds(builds, "A")

C10_SkippedSatisfies ==
    [][(/\ CreateEnded(last')
        /\ \E d \in DepSet(last'.job) : OnlySkipped(builds, d)
        /\ \A d \in DepSet(last'.job) :
              OnlySkipped(builds, d) \/ SuccessfulIds(builds, d) # {})
            => last'.raised = "none"]_vars

\* C10 (amended): a skipped build does not count as a successful build of
\* a dependency: when the finished builds of a dependency are all skipped
\* ones, create_build raises MissingDependencies and creates nothing.
C10_SkippedIgnored ==
    [][(/\ CreateEnded(last')
        /\ \E d \in DepSet(last'.job) : OnlySkipped(builds, d))
            => /\ last'.raised = "MissingDependencies"
               /\ builds' = builds]_vars

\* create_build of B was refused while the only build of A was a skipped one
C10_Witness ==
    /\ last.op = "create_build" /\ last.job = "B"
    /\ last.raised = "MissingDependencies"
    /\ OnlySkipped(builds, "A")

\* after create_build the new build is not started, not finished and holds
\* the job's configuration; whenever the function of a build is called, the
\* function and the arguments are those of the build's stored job_config
C11_SnapshotState ==
    /\ (last.op = "create_build" /\ last.raised = "none") =>
          /\ ~LastBuild.started /\ ~LastBuild.finished
          /\ LastBuild.job_config = config_get_job(last.job).value
    /\ (last.op = "prepare" /\ last.called) =>
          LET conf == builds[last.build].job_config
              top == local_top(ctx[last.thread])
          IN  /\ last.args.function = conf.function
              /\ last.args.args =
                    prepare_args(conf.args, LastBuild, top, builds).value
              /\ last.args.kwargs =
                    prepare_args(conf.kwargs, LastBuild, top, builds).value

\* no step changes the job_config of an existing build
C11_SnapshotKept ==
    \A b \in DOMAIN builds :
        /\ b \in DOMAIN builds'
        /\ builds'[b].job_config = builds[b].job_config

\* C11: a build fetched right after create_build is not started, not
\* finished and has the job's configuration of that time as job_config;
\* edits of the configuration leave the stored job_config unchanged, and
\* running the build calls the function, args and kwargs of the snapshot.
C11_ConfigSnapshot == [](C11_SnapshotState) /\ [][C11_SnapshotKept]_vars

\* the function of a build is called while the configuration of its job is
\* no longer the one the build was created with
C11_Witness ==
    /\ last.op = "prepare" /\ last.called
    /\ builds[last.build].job_config # config_get_job(last.job).value
    /\ last.args.function = "mod:job_a"

\* the flags and the outcome of a build row
OutcomeOf(row) ==
    <<row.started, row.finished, row.success, row.skipped, row.retval,
      row.exception>>

\* C12 (as stated): a build that has finished never changes its started,
\* finished, success or skipped flags, its retval or its exception again.
C12_TerminalNeverChanges ==
    [][\A b \in DOMAIN builds :
          builds[b].finished =>
              /\ b \in DOMAIN builds'
              /\ OutcomeOf(builds'[b]) = OutcomeOf(builds[b])]_vars

\* C12 (amended): a build moves CREATED -> RUNNING -> SUCCESSFUL, SKIPPED or
\* FAILED and started and finished are never reset, but the outcome is not
\* final: a finished build can be run again, and only a finish_build call
\* for it changes its outcome, to the one of that call.
C12_LifecycleForward ==
    [][/\ \A b \in DOMAIN builds :
             /\ b \in DOMAIN builds'
             /\ builds[b].started => builds'[b].started
             /\ builds[b].finished => builds'[b].finished
             /\ builds'[b].finished => builds[b].started
             /\ (builds[b].finished
                    /\ OutcomeOf(builds'[b]) # OutcomeOf(builds[b]))
                  => /\ last'.op = "finish_build"
                     /\ last'.build = b
                     /\ last'.raised = "none"
       /\ \A b \in DOMAIN builds' \ DOMAIN builds :
             ~builds'[b].started /\ ~builds'[b].finished
       /\ (last'.op = "finish_build" /\ last'.raised = "none") =>
             LET row == builds'[last'.build]
             IN  /\ row.started /\ row.finished
                 /\ row.success = (last'.outcome.kind # "error")
                 /\ row.skipped = (last'.outcome.kind = "skip")
                 /\ row.exception # None <=> last'.outcome.kind = "error"
      ]_vars

\* finish_build was called for a build that was finished already and
\* recorded a failure
C12_Witness ==
    /\ last.op = "finish_build" /\ last.raised = "none"
    /\ last.was_finished
    /\ last.outcome.kind = "error"
    /\ ~LastBuild.success

\* C13: when the returned object or the raised exception cannot be
\* serialized, the build still ends finished, not successful and with an
\* exception describing the failure; run_build does not leave it running.
C13_SerializationFailureRecorded ==
    (/\ last.op = "run_build" /\ last.called
     /\ last.outcome.kind \in {"return", "error"}
     /\ ~Serializable(last.outcome.obj)) =>
        /\ LastBuild.finished
        /\ ~LastBuild.success
        /\ LastBuild.exception # None

\* the code of every running build sees its own build as the current
\* context
C14_OwnContext ==
    \A t \in Threads :
        InRunBuild(t, "running") =>
            /\ get_current_ctx(ctx[t]).raised = "none"
            /\ get_current_ctx(ctx[t]).value.build_id = Top(t).build_id

\* a thread's stack changes by that thread's steps only, and a progress
\* report or log record made inside a build is stored, against that build
C14_OwnRecords ==
    /\ \A t \in Threads : ctx'[t] # ctx[t] => last'.thread = t
    /\ (last'.op \in {"report_progress", "log"}
           /\ frames[last'.thread] # <<>>) =>
          LET own == Top(last'.thread).build_id
          IN  /\ last'.raised = "none"
              /\ last'.build = own
              /\ last'.op = "report_progress" =>
                    /\ logs' = logs
                    /\ \E k \in 1..Len(progress') :
                          /\ progress'[k].build_id = own
                          /\ progress'[k].group_name = last'.args
                    /\ \A k \in 1..Len(progress') :
                          (k > Len(progress) \/ progress'[k] # progress[k])
                              => progress'[k].build_id = own
              /\ last'.op = "log" =>
                    /\ progress' = progress
                    /\ Len(logs') = Len(logs) + 1
                    /\ \A k \in 1..Len(logs) : logs'[k] = logs[k]
                    /\ logs'[Len(logs')].build_id = own

C15_StackIsLifo ==
    /\ IF LiveContexts = {}
       THEN /\ get_current_ctx(ctx["t1"]) = Raised("RuntimeError")
            /\ \A name \in AttributeInputs :
                  get_ctx_object(ctx["t1"], name) = Raised("RuntimeError")
       ELSE /\ get_current_ctx(ctx["t1"]) = Returned(opened[Innermost].obj)
            /\ \A name \in AttributeInputs :
                  get_ctx_object(ctx["t1"], name)
                      = Returned(opened[Innermost].obj[name])
    /\ last.op = "exit" => last.raised = "none"
    /\ last.op \in {"read", "getattr"} =>
          IF LiveContexts = {}
          THEN last.raised = "RuntimeError" /\ last.args = None
          ELSE /\ last.raised = "none"
               /\ last.op = "read" => last.args = opened[Innermost].obj
               /\ last.op = "getattr" =>
                     last.args = Scalar(opened[Innermost].obj[last.job])

\* a read inside two nested with blocks, made after an inner block of them
\* was left
C15_Witness ==
    /\ last.op = "read"
    /\ last.raised = "none"
    /\ Len(ctx["t1"]) = 2
    /\ \E k \in 1..Len(opened) : ~opened[k].live /\ k < Innermost

\* the builds pinned as dependencies in the build_config of build b
PinnedBuilds(bs, b) ==
    LET pins == bs[b].build_config.dependency_builds
    IN  {pins[d] : d \in DOMAIN pins}

C17_BuildsDependenciesFirst ==
    [][(/\ builds = <<>>
        /\ last'.op \in {"build_job", "call_build_job"}
        /\ last'.job = "C") =>
           /\ last'.raised = "none"
           /\ \A j \in {"A", "B", "C"} :
                 Cardinality({b \in DOMAIN builds' :
                                 builds'[b].job_id = j}) = 1]_vars

\* C18: build_job(j), when every dependency of j has a successful (finished,
\* success, not skipped) build, creates exactly one build record, for j, and
\* no step of the call creates, starts, finishes or modifies another build;
\* a second call adds exactly one more build of j.
C18_OnlyOwnBuild ==
    [][/\ (/\ last'.op \in {"build_job", "call_build_job"}
           /\ last'.job \in ConfiguredJobs
           /\ \A d \in DepSet(last'.job) : SuccessfulIds(builds, d) # {}) =>
              /\ last'.op = "call_build_job"
              /\ DOMAIN builds' = DOMAIN builds \cup {last'.build}
              /\ last'.build \notin DOMAIN builds
              /\ builds'[last'.build].job_id = last'.job
              /\ \A b \in DOMAIN builds : builds'[b] = builds[b]
       /\ \A t \in Callers :
             frames[t] # <<>> =>
                /\ DOMAIN builds' = DOMAIN builds
                /\ builds[Top(t).build_id].job_id = Top(t).job_id
                /\ \A b \in DOMAIN builds :
                      b # Top(t).build_id => builds'[b] = builds[b]
      ]_vars

\* the second build_job("B") has ended: two finished builds of B, and still
\* the one successful build of A made before them
C18_Witness ==
    /\ last.op = "run_build" /\ last.job = "B"
    /\ Cardinality({b \in DOMAIN builds :
                       builds[b].job_id = "B" /\ builds[b].finished}) = 2
    /\ Cardinality({b \in DOMAIN builds : builds[b].job_id = "A"}) = 1
    /\ SuccessfulIds(builds, "A") # {}

\* C19: get_job, create_build and build_job of a job id that is not
\* configured raise NotFound, get_build of a build id that is not stored
\* raises NotFound, and none of these calls creates, starts or modifies a
\* build record; get_job and get_build of what exists do not raise.
C19_NotFound ==
    [][/\ last'.op \in {"get_job", "create_build", "build_job",
                        "call_build_job"} =>
             IF last'.job \in ConfiguredJobs
             THEN last'.raised # "NotFound"
             ELSE /\ last'.op # "call_build_job"
                  /\ last'.raised = "NotFound"
                  /\ builds' = builds
                  /\ next_build_id' = next_build_id
                  /\ frames' = frames
       /\ last'.op = "get_build" =>
             /\ builds' = builds
             /\ next_build_id' = next_build_id
             /\ IF last'.build \in DOMAIN builds
                THEN /\ last'.raised = "none"
                     /\ last'.returned = IntObj(last'.build)
                ELSE /\ last'.raised = "NotFound"
                     /\ last'.returned = None
      ]_vars

\* build_job of an unknown job was refused on a storage that holds a build,
\* whose id is not the highest one a caller asks for
C19_Witness ==
    /\ last.op = "build_job" /\ last.job = "nojob"
    /\ last.raised = "NotFound"
    /\ builds # <<>>
    /\ get_build(builds, MaxBuilds).raised = "NotFound"

\* C20: build_job(j) returns the id of the build it created and ran for j.
C20_ReturnsBuildId ==
    (last.op = "run_build" /\ last.raised = "none") =>
        last.returned = IntObj(last.build)

\* the vertices reached from those of S by walks of exactly k edges
RECURSIVE StepsFrom(_, _, _)
StepsFrom(g, S, k) ==
    IF k = 0 THEN S
    ELSE StepsFrom(g, UNION {Succs(g, v) : v \in S}, k - 1)

\* the number of edges of the longest path from s to v in an acyclic g
MaxDepth(g, s, v) ==
    CHOOSE k \in 0..NumVertices :
        /\ v \in StepsFrom(g, {s}, k)
        /\ \A j \in (k + 1)..NumVertices : v \notin StepsFrom(g, {s}, j)

\* g with the i-th and the (i+1)-th dependency of vertex v exchanged
SwapDeps(g, v, i) ==
    [g EXCEPT ![v] = [@ EXCEPT ![i] = g[v][i + 1], ![i + 1] = g[v][i]]]

\* C21: the list resolve_deps returns holds the vertices reachable from
\* start in descending order of (longest path from start, vertex), the
\* weights returned with them are these path lengths, and a graph with the
\* dependencies of a vertex listed in another order gives the same result.
C21_CanonicalOrder ==
    (resolved.raised # "pending") =>
        /\ resolved.raised = "none" =>
              LET order == ResolvedOrder
                  depth(v) == MaxDepth(graph, start, v)
              IN  /\ {order[i] : i \in 1..Len(order)}
                        = Reachable(graph, start)
                  /\ \A i \in 1..Len(order) : \A j \in (i + 1)..Len(order) :
                        PairLess(<<depth(order[j]), order[j]>>,
                                 <<depth(order[i]), order[i]>>)
                  /\ resolved.with_weights =>
                        \A i \in 1..Len(order) :
                            resolved.value[i][1] = depth(order[i])
        /\ \A v \in Vertices : \A i \in 1..(Len(graph[v]) - 1) :
              resolve_deps(SwapDeps(graph, v, i), start,
                           resolved.with_weights)
                  = [raised |-> resolved.raised, value |-> resolved.value]
        /\ resolve_deps(graph, start, resolved.with_weights)
              = [raised |-> resolved.raised, value |-> resolved.value]

\* a list was returned for a graph where a vertex lists its dependencies in
\* descending order and one of them is reached at two depths
C21_Witness ==
    /\ resolved.raised = "none"
    /\ \E v \in Vertices :
          /\ Len(graph[v]) = 2
          /\ graph[v][1] > graph[v][2]
    /\ \E u \in Reachable(graph, start) :
          /\ u \in StepsFrom(graph, {start}, 1)
          /\ u \in StepsFrom(graph, {start}, 2)

PathOf(name) == IF name = None THEN <<>> ELSE name.items

\* the prefixes of the paths reported in the table, the empty one included
TablePrefixes ==
    {<<>>} \cup UNION {{SubSeq(PathOf(table[k].name), 1, n) :
                            n \in 0..Len(PathOf(table[k].name))} :
                       k \in 1..Len(table)}

\* the entries of the table whose path is p, and those under p
EntriesAt(p) == {k \in 1..Len(table) : PathOf(table[k].name) = p}

EntriesUnder(p) ==
    {k \in 1..Len(table) :
        /\ Len(PathOf(table[k].name)) >= Len(p)
        /\ SubSeq(PathOf(table[k].name), 1, Len(p)) = p}

\* the node of the tree found by following the path p, None without one
RECURSIVE NodeAt(_, _)
NodeAt(node, p) ==
    IF p = <<>> THEN node
    ELSE IF \E k \in 1..Len(node.children) :
               node.children[k].name = Scalar(Head(p))
    THEN NodeAt(node.children[CHOOSE k \in 1..Len(node.children) :
                    node.children[k].name = Scalar(Head(p))], Tail(p))
    ELSE None

\* the number of nodes of the tree
RECURSIVE CountNodes(_)
CountNodes(node) ==
    1 + sum([k \in 1..Len(node.children) |-> CountNodes(node.children[k])])

\* C24: from_table builds a root plus exactly one node for every distinct
\* non-empty prefix of the reported paths; a node has the current, total
\* and status line of an entry whose path is the node's (the last one), or
\* none; its children are named after the next segments, in the order these
\* first appear in the table.
C24_TreeOfPrefixes ==
    (report # None) =>
        /\ CountNodes(report) = Cardinality(TablePrefixes)
        /\ \A p \in TablePrefixes :
              LET node == NodeAt(report, p)
                  at == EntriesAt(p)
                  k == CHOOSE x \in at : \A y \in at : y <= x
              IN  /\ node # None
                  /\ node.name = IF p = <<>> THEN None
                                 ELSE Scalar(p[Len(p)])
                  /\ IF at = {}
                     THEN /\ node.current = None /\ node.total = None
                          /\ node.status_line = None
                     ELSE /\ node.current = table[k].current
                          /\ node.total = table[k].total
                          /\ node.status_line = table[k].status_line
                  /\ \A i \in 1..Len(node.children) :
                        \A j \in 1..Len(node.children) :
                            i < j =>
                               LET first(c) ==
                                      CHOOSE x \in EntriesUnder(
                                                 Append(p, c.name.v)) :
                                          \A y \in EntriesUnder(
                                                 Append(p, c.name.v)) :
                                              x <= y
                               IN  first(node.children[i])
                                       < first(node.children[j])

\* a tree was built from a table without an entry for the root, where "b"
\* is reported before "a" and "a" only through two paths below it
C24_Witness ==
    /\ report # None
    /\ EntriesAt(<<>>) = {}
    /\ EntriesAt(<<"a">>) = {}
    /\ Len(report.children) = 2
    /\ report.children[1].name = Scalar("b")
    /\ Len(report.children[2].children) = 2

\* the sum of f over the paths of a set
RECURSIVE SumOver(_, _)
SumOver(S, f) ==
    IF S = {} THEN 0
    ELSE LET x == CHOOSE y \in S : TRUE
         IN  f[x] + SumOver(S \ {x}, f)

\* the prefixes one segment longer than p
ChildPaths(p) ==
    {q \in TablePrefixes : Len(q) = Len(p) + 1 /\ SubSeq(q, 1, Len(p)) = p}

\* the effective value of a field at the path p: the value of the last
\* entry reported for p, the sum over the paths one segment longer without
RECURSIVE Effective(_, _)
Effective(p, field) ==
    LET at == EntriesAt(p)
        k == CHOOSE x \in at : \A y \in at : y <= x
    IN  IF at # {} THEN table[k][field].v
        ELSE SumOver(ChildPaths(p),
                     [q \in ChildPaths(p) |-> Effective(q, field)])

\* C25: the current and the total of every node are the values reported for
\* the node's path if any, a reported 0 included and whatever its children
\* add up to, and else the sum of its children's, 0 without children.
C25_EffectiveValues ==
    (report # None) =>
        \A p \in TablePrefixes :
            LET node == NodeAt(report, p)
            IN  /\ report_current(node) = Effective(p, "current")
                /\ report_total(node) = Effective(p, "total")
                /\ node.current # None =>
                      report_current(node) = node.current.v
                /\ node.total # None => report_total(node) = node.total.v
                /\ (node.current = None /\ node.children = <<>>) =>
                      report_current(node) = 0 /\ report_total(node) = 0

\* the root was reported with 0 while one of its children, not reported
\* itself, adds up to more
C25_Witness ==
    /\ report # None
    /\ report.current = IntObj(0)
    /\ report_current(report) = 0
    /\ \E k \in 1..Len(report.children) :
          /\ report.children[k].current = None
          /\ report_current(report.children[k]) > 0

\* the latest successful build of a job that has one
LatestSuccess(j) ==
    builds[CHOOSE b \in SuccessfulIds(builds, j) :
              \A x \in SuccessfulIds(builds, j) : x <= b]

\* the latest successful build of dependency d ended strictly after the one
\* of job j
NewerThan(d, j) ==
    /\ SuccessfulIds(builds, d) # {}
    /\ LatestSuccess(d).end_time.v > LatestSuccess(j).end_time.v

FinishedIds(j) ==
    {b \in DOMAIN builds : builds[b].job_id = j /\ builds[b].finished}

LatestFinished(j) ==
    builds[CHOOSE b \in FinishedIds(j) : \A x \in FinishedIds(j) : x <= b]

\* C27: the status derived for a job is not_built while it has no finished
\* build, failed when its latest finished build failed, success when its
\* latest finished build succeeded and no dependency has a strictly newer
\* successful build, and outdated when one has.
C27_StatusOfLatestBuild ==
    (last.op = "job_status") =>
        LET j == last.job
            status == last.returned.v
        IN  /\ FinishedIds(j) = {} => status = "not_built"
            /\ (FinishedIds(j) # {} /\ ~LatestFinished(j).success)
                  => status = "failed"
            /\ (/\ FinishedIds(j) # {}
                /\ LatestFinished(j).success /\ ~LatestFinished(j).skipped)
                  => status = IF \E d \in DepSet(j) : NewerThan(d, j)
                              THEN "outdated" ELSE "success"

\* the builds of a job that a query asks for
FlagGiven(flag, filter) ==
    (filter = "true" => flag) /\ (filter = "false" => ~flag)

Matching(q) ==
    {b \in DOMAIN builds :
        /\ builds[b].job_id = q.job_id
        /\ FlagGiven(builds[b].started, q.started)
        /\ FlagGiven(builds[b].finished, q.finished)
        /\ FlagGiven(builds[b].success, q.success)
        /\ FlagGiven(builds[b].skipped, q.skipped)}

Before(order, a, b) == IF order = "asc" THEN a < b ELSE a > b

FoundIds == {found[k] : k \in 1..Len(found)}

\* C28: get_job_builds returns the builds of the job whose flags equal every
\* given filter, sorted by id in the requested direction and cut to the first
\* limit results; get_latest_successful_build returns the highest-id build of
\* the job that is started, finished, successful and not skipped, or nothing.
C28_FilteredSortedCut ==
    /\ (query # None) =>
          /\ FoundIds \subseteq Matching(query)
          /\ \A k \in 1..(Len(found) - 1) :
                Before(query.order, found[k], found[k + 1])
          /\ \A b \in Matching(query) \ FoundIds :
                /\ query.limit # -1
                /\ Len(found) = query.limit
                /\ \A x \in FoundIds : Before(query.order, x, b)
    /\ (last.op = "get_latest_successful_build") =>
          LET good == {b \in DOMAIN builds :
                          /\ builds[b].job_id = last.job
                          /\ builds[b].started /\ builds[b].finished
                          /\ builds[b].success /\ ~builds[b].skipped}
          IN  IF good = {} THEN last.returned = None
              ELSE /\ last.returned # None
                   /\ last.returned.v \in good
                   /\ \A b \in good : b <= last.returned.v

\* a query for the latest build that was not skipped, which is not the
\* latest build of the job
C28_Witness ==
    /\ query # None
    /\ query.skipped = "false" /\ query.limit = 1 /\ query.order = "desc"
    /\ Len(found) = 1
    /\ \E b \in DOMAIN builds :
          /\ builds[b].job_id = query.job_id
          /\ builds[b].skipped
          /\ b > found[1]

Other(t) == CHOOSE u \in Threads : u # t

\* the builds two threads are in at the same time are different records
C29_OwnRecord ==
    \A t \in Threads, u \in Threads :
        (t # u /\ frames[t] # <<>> /\ frames[u] # <<>>)
            => Top(t).build_id # Top(u).build_id

\* a build_job call made while the other thread is in a build of the same
\* job adds a record with a new id and leaves the others as they are; the
\* finish of a build writes the outcome of its own thread to its own record
\* and leaves the others as they are
C29_OwnOutcome ==
    /\ (last'.op \in {"build_job", "call_build_job"}
           /\ frames[Other(last'.thread)] # <<>>) =>
          /\ last'.op = "call_build_job"
          /\ Len(builds') = Len(builds) + 1
          /\ builds'[Len(builds')].id = Len(builds')
          /\ builds'[Len(builds')].job_id = last'.job
          /\ ~builds'[Len(builds')].finished
          /\ frames'[last'.thread][Len(frames'[last'.thread])].build_id
                = Len(builds')
          /\ \A b \in DOMAIN builds : builds'[b] = builds[b]
    /\ (last'.op = "finish_build") =>
          /\ last'.raised = "none"
          /\ Len(builds') = Len(builds)
          /\ \A b \in DOMAIN builds :
                b # last'.build => builds'[b] = builds[b]
          /\ builds'[last'.build].finished
          /\ builds'[last'.build].success = (last'.outcome.kind = "return")
          /\ last'.outcome.kind = "error" =>
                builds'[last'.build].exception # None
    /\ (last'.op = "run_build") =>
          /\ builds[last'.build].finished
          /\ builds[last'.build].success = (last'.outcome.kind = "return")
          /\ builds' = builds

RECURSIVE HasType(_, _)
HasType(a, type) ==
    IF a.t = type THEN TRUE
    ELSE CASE a.t \in {"list", "tuple"} ->
                  \E i \in 1..Len(a.items) : HasType(a.items[i], type)
           [] a.t = "dict" ->
                  \E i \in 1..Len(a.items) :
                      IF HasType(a.items[i][1], type) THEN TRUE
                      ELSE HasType(a.items[i][2], type)
           [] OTHER -> FALSE

HasPlaceholder(a) == HasType(a, "retval")

HasOtherType(a) == HasType(a, "other")

\* p is a with each placeholder replaced by the return value of the latest
\* successful build of its job, and everything else as it was
RECURSIVE SameShape(_, _)
SameShape(a, p) ==
    CASE a.t \in {"list", "tuple"} ->
             /\ p.t = a.t
             /\ Len(p.items) = Len(a.items)
             /\ \A i \in 1..Len(a.items) : SameShape(a.items[i], p.items[i])
      [] a.t = "dict" ->
             /\ p.t = "dict"
             /\ Len(p.items) = Len(a.items)
             /\ \A i \in 1..Len(a.items) :
                   /\ SameShape(a.items[i][1], p.items[i][1])
                   /\ SameShape(a.items[i][2], p.items[i][2])
      [] a.t = "retval" ->
             /\ SuccessfulIds(builds, a.job_id) # {}
             /\ p = unpack(LatestSuccess(a.job_id).retval)
      [] OTHER -> p = a

\* C30: prepare_args preserves the shape of its input: lists, tuples and
\* maps keep their kind, length and order with each element, key and value
\* resolved, scalars (null among them) are returned unchanged, so that a
\* structure without placeholders is returned equal to itself, and a value
\* of any other type fails with an unsupported-type error.
C30_ShapePreserved ==
    (last.op = "prepare_args") =>
        IF HasOtherType(arguments)
        THEN /\ prepared.raised # "none"
             /\ ~HasPlaceholder(arguments)
                   => prepared.raised = "TypeError(unsupported type)"
        ELSE IF ~HasPlaceholder(arguments)
        THEN prepared = Returned(arguments)
        ELSE prepared.raised = "none"
                => SameShape(arguments, prepared.value)

\* every context on a stack is for a build whose record is marked started
C31_FramesStarted ==
    \A t \in Threads :
        \A k \in 1..Len(ctx[t]) : builds[ctx[t][k].build_id].started

\* the steps of one run: the context is pushed for a started build, the
\* function is entered and finish_build is called under that context, and
\* the context is popped when the record is finished
C31_Steps ==
    /\ last'.op = "push" =>
          /\ builds[last'.build].started
          /\ Len(ctx'[last'.thread]) = Len(ctx[last'.thread]) + 1
    /\ (last'.op = "prepare" /\ last'.called) =>
          /\ ctx[last'.thread] # <<>>
          /\ local_top(ctx[last'.thread]).build_id = last'.build
    /\ last'.op = "finish_build" =>
          /\ ctx[last'.thread] # <<>>
          /\ local_top(ctx[last'.thread]).build_id = last'.build
          /\ ctx' = ctx
    /\ (last'.op = "run_build"
           /\ Len(ctx'[last'.thread]) < Len(ctx[last'.thread])) =>
          /\ local_top(ctx[last'.thread]).build_id = last'.build
          /\ builds[last'.build].finished

\* C31: within one run_build the steps happen in the order start_build,
\* context push, job function invocation, finish_build, context pop: every
\* context on a stack refers to a build marked started, and the record of a
\* build is already finished when its context is popped.
C31_StepOrder == [](C31_FramesStarted) /\ [][C31_Steps]_vars

\* from the push of its context to its pop, the build a thread is running
\* is the current context
C32_InnermostIsCurrent ==
    \A t \in Threads :
        (/\ frames[t] # <<>>
         /\ IF frames[t] = <<>> THEN FALSE
            ELSE Top(t).pc \in {"prepare", "running", "finish", "pop"}) =>
            /\ get_current_ctx(ctx[t]).raised = "none"
            /\ get_current_ctx(ctx[t]).value.build_id = Top(t).build_id

\* when the run of an inner build ends, in whatever way, the call returns
\* and the current context is the one of the build that made the call; what
\* a build logs or reports is stored against it
C32_OuterRestored ==
    /\ (last'.op = "run_build" /\ frames'[last'.thread] # <<>>) =>
          LET outer == frames'[last'.thread][Len(frames'[last'.thread])]
          IN  /\ last'.raised = "none"
              /\ outer.pc = "running"
              /\ get_current_ctx(ctx'[last'.thread]).raised = "none"
              /\ get_current_ctx(ctx'[last'.thread]).value.build_id
                    = outer.build_id
              /\ outer.build_id # last'.build
    /\ (last'.op = "log" /\ frames[last'.thread] # <<>>) =>
          /\ Len(logs') = Len(logs) + 1
          /\ logs'[Len(logs')].build_id = Top(last'.thread).build_id
    /\ (last'.op = "report_progress" /\ frames[last'.thread] # <<>>) =>
          /\ last'.raised = "none"
          /\ last'.build = Top(last'.thread).build_id
          /\ \E k \in 1..Len(progress') :
                /\ progress'[k].build_id = Top(last'.thread).build_id
                /\ (k > Len(progress) \/ progress'[k] # progress[k]
                       \/ progress[k].current = last'.counts[1].v)

C33_StartedIsFinished ==
    \A b \in 1..LiveBuilds :
        (b \in DOMAIN builds /\ builds[b].started /\ ~builds[b].finished)
            ~> (b \in DOMAIN builds /\ builds[b].finished)

C34_WitnessDropped ==
    /\ last.op = "log"
    /\ frames[last.thread] = <<>>
    /\ handlers = 1
    /\ logs = <<>>

\* C39: in every list returned by resolve_deps the start vertex is the last
\* element; with with_weights=True the start vertex has weight 0 and every
\* other returned vertex has the number of edges of the longest path from
\* start to it as its weight, which is at least 1.
C39_StartLastWeights ==
    (resolved.raised = "none") =>
        /\ Len(resolved.value) >= 1
        /\ ResolvedOrder[Len(resolved.value)] = start
        /\ \A k \in 1..(Len(resolved.value) - 1) : ResolvedOrder[k] # start
        /\ resolved.with_weights =>
              /\ resolved.value[Len(resolved.value)] = <<0, start>>
              /\ \A k \in 1..(Len(resolved.value) - 1) :
                    /\ resolved.value[k][1]
                          = MaxDepth(graph, start, resolved.value[k][2])
                    /\ resolved.value[k][1] >= 1

\* a list with weights in which a vertex that is a dependency of start has
\* weight 2, a longer path leading to it
C39_Witness ==
    /\ resolved.raised = "none"
    /\ resolved.with_weights
    /\ \E k \in 1..Len(resolved.value) :
          /\ resolved.value[k][1] = 2
          /\ InSeq(resolved.value[k][2], graph[start])

\* the job ids a set of job ids leads to in one step along the declared
\* dependencies, and against them
DepsOfSet(conf, S) ==
    UNION {{conf[v][i] : i \in 1..Len(conf[v])} : v \in S \cap DOMAIN conf}

RevdepsOfSet(conf, S) ==
    {v \in DOMAIN conf : \E i \in 1..Len(conf[v]) : conf[v][i] \in S}

\* S with what n steps along the dependencies lead to; with the steps
\* against them as well; with the steps against them only
RECURSIVE DepClosure(_, _, _)
DepClosure(conf, S, n) ==
    IF n = 0 THEN S ELSE DepClosure(conf, S \cup DepsOfSet(conf, S), n - 1)

RECURSIVE FullClosure(_, _, _)
FullClosure(conf, S, n) ==
    IF n = 0 THEN S
    ELSE FullClosure(conf,
             S \cup DepsOfSet(conf, S) \cup RevdepsOfSet(conf, S), n - 1)

RECURSIVE RevClosure(_, _, _)
RevClosure(conf, S, n) ==
    IF n = 0 THEN S ELSE RevClosure(conf, S \cup RevdepsOfSet(conf, S), n - 1)

\* the job ids _create_job_depgraph has to look at
Explored ==
    IF depgraph.complete THEN FullClosure(graph, {start}, NumVertices + 1)
    ELSE DepClosure(graph, {start}, NumVertices + 1)

\* C35: _create_job_depgraph terminates for every configuration, cyclic
\* ones included, and reads the dependency list of each job at most once;
\* a cyclic configuration is rejected afterwards by resolve_deps, not by the
\* construction of the graph.
C35_TerminatesReadingOnce ==
    (depgraph # None) =>
        /\ \A j \in JobIds :
              /\ depgraph.reads[j] <= 1
              /\ depgraph.reads[j] = 1 => j \in Explored
              /\ (depgraph.raised = "none" /\ j \in Explored)
                    => depgraph.reads[j] = 1
        /\ depgraph.raised = IF NoJob \in Explored THEN "NotFound" ELSE "none"
        /\ (depgraph.raised = "none" /\ resolved # Pending) =>
              resolved.raised = IF CycleReachable(graph, start)
                                THEN "DepLoop" ELSE "none"

\* the graph of a configuration with a cycle was made, a job with two
\* dependents in it, and resolve_deps has rejected it
C35_Witness ==
    /\ depgraph # None
    /\ depgraph.raised = "none"
    /\ resolved.raised = "DepLoop"
    /\ \E j \in DOMAIN depgraph.DEPGRAPH :
          Cardinality(RevdepsOfSet(graph, {j})
                          \cap DOMAIN depgraph.DEPGRAPH) = 2

\* C36: the keys of the graph returned by _create_job_depgraph(j) are j and
\* its transitive dependencies, and with complete=True every job reachable
\* from j along dependency and reverse-dependency edges in any combination;
\* the list of each key is the declared dependency list of that job.
C36_KeysAndLists ==
    (depgraph # None /\ depgraph.raised = "none") =>
            /\ DOMAIN depgraph.DEPGRAPH = Explored
            /\ \A k \in DOMAIN depgraph.DEPGRAPH :
                  depgraph.DEPGRAPH[k] = graph[k]

\* a complete graph with a key that is neither a transitive dependency nor
\* a transitive dependent of the job it was made for
C36_Witness ==
    /\ depgraph # None
    /\ depgraph.raised = "none"
    /\ depgraph.complete
    /\ \E k \in DOMAIN depgraph.DEPGRAPH :
          /\ k \notin DepClosure(graph, {start}, NumVertices + 1)
          /\ k \notin RevClosure(graph, {start}, NumVertices + 1)

\* C37: a pop() called on a context that is not the top frame of the stack
\* fails with an AssertionError and leaves the stack as it was.
C37_FailedPopKeepsStack ==
    [][(last'.op = "pop" /\ local_top(ctx[last'.thread]) # last'.args)
         => (last'.raised = "AssertionError" /\ ctx' = ctx)]_vars

\* C37 as the code has it: a pop() called on a context that is not the top
\* frame fails with an AssertionError after the top frame has been taken off
\* the stack
C37_FailedPopRemovesTop ==
    [][(last'.op = "pop" /\ local_top(ctx[last'.thread]) # last'.args)
         => /\ last'.raised = "AssertionError"
            /\ ctx'[last'.thread] = local_pop(ctx[last'.thread]).stack]_vars

\* a failed pop of an outer context has removed the frame of the inner one
C37_Witness ==
    /\ last.op = "pop"
    /\ last.raised = "AssertionError"
    /\ ctx[last.thread] # <<>>
    /\ local_top(ctx[last.thread]) = last.args

\* the builds pinned by build b: the values of its dependency_builds
PinnedBy(b) ==
    LET pins == builds[b].build_config.dependency_builds
    IN  {pins[j] : j \in DOMAIN pins}

\* C38: after any sequence of create_build, run_build and delete, every
\* build id in a build's dependency_builds is the id of a build that is in
\* the storage, finished and successful.
C38_PinsValid ==
    \A b \in DOMAIN builds : \A d \in PinnedBy(b) :
        /\ d \in DOMAIN builds
        /\ builds[d].finished
        /\ builds[d].success

\* the pinned builds can only become invalid by a delete or by a run that
\* ends: create_build itself pins finished, successful builds
C38_PinnedAtCreation ==
    [][last'.op = "create_build" /\ last'.raised = "none"
         => \A d \in {builds'[last'.build].build_config.dependency_builds[j] :
                      j \in DOMAIN builds'[last'.build].build_config.dependency_builds} :
               /\ d \in DOMAIN builds
               /\ builds[d].finished /\ builds[d].success
               /\ ~builds[d].skipped]_vars

====
